---- MODULE Spec2Model ----
(***************************************************************************)
(* Model of the WLAN waveform / demodulation setup scripts:                *)
(*   - RS_FSX_WLAN_AX_BE (analyzer session): write_command with the *OPC   *)
(*     handshake, FSW_preset, FSW_autolevel, setup_WLAN_app;               *)
(*   - RS_SMX (generator session, legacy versions/RS_SMx_WLAN_v2.py):      *)
(*     write_command, query_command, opc_check, create_waveform.           *)
(*                                                                         *)
(* Every call on the transport (write_str, query_str, query_int) and every *)
(* time.sleep is one step.  Time is in milliseconds; lengths of time given *)
(* to create_waveform are in tenths of a microsecond.                      *)
(***************************************************************************)
EXTENDS Integers, Sequences, FiniteSets, TLC

VARIABLES
    env,      \* behaviour of instruments and link in this run: "benign" | "adverse"
    peer,     \* RS_FSX_WLAN_AX_BE.smw is set (a generator session is linked)
    op,       \* the operation in progress or last run ("none" before the first)
    pc,       \* position inside op
    loc,      \* arguments and local variables of op
    ex,       \* the executor call in progress: phase, session, command
    now,      \* time.time(), in ms since the directive of the current call was written
    deadline, \* the local `timeout` of write_command / opc_check
    qdur,     \* duration in ms of one *ESR? query during the current call
    instr,    \* per instrument: commands with *OPC still executing, ESR bit 0
    sent,     \* transport calls of the current operation, in order
    call,     \* counters of the current executor call: writes, polls, sleeps
    result,   \* how op ended: "none" | "ok" | "raised" | "ret0" | "retm1"
    err,      \* the exception that ended op, "none" otherwise
    opsRun,   \* operations started so far
    tr,       \* the last translation made: identifier, directive, description
    fs,       \* the GUI's full_setup run: its stage, the standard it uses, its outcome
    conn,     \* the GUI's session objects and the transport links that are open
    gen       \* what the generator holds, where a run follows it (NoGen where not)

vars == << env, peer, op, pc, loc, ex, now, deadline, qdur, instr,
           sent, call, result, err, opsRun, tr, fs, conn, gen >>

-----------------------------------------------------------------------------
(* Bounds of the exploration *)

\* operations run one after the other in one behaviour
MaxOps == 2
\* a *ESR? query takes 0 .. MaxQueryIntervals poll intervals of wall-clock time
MaxQueryIntervals == 1

(* Program constants *)

\* time.time() + 10
TimeoutMs == 10000
\* time.sleep(0.2)
SleepMs == 200
\* bit 0 of the event status register (`& 1`)
OpcMask == 1
\* ESR bit 5, command error: present in replies, ignored by the code
CmeBit == 32

Devs == {"fsw", "smw"}

-----------------------------------------------------------------------------
(* Commands.  A command is its SCPI header `c`, the index `i` it addresses  *)
(* (MPDU number, 0 when none) and its numeric argument v/q (0/1 when none). *)

Cmd(c, i, v, q) == [c |-> c, i |-> i, v |-> v, q |-> q]
Plain(c) == Cmd(c, 0, 0, 1)

\* the directive sent without the suffix
WithoutOpc(c) == [cmd |-> c, opc |-> FALSE]
\* f"{command};*OPC": the directive with the completion-request suffix
WithOpc(c) == [cmd |-> c, opc |-> TRUE]
\* a write without the suffix (RS_SMX.write_command)
Bare(c) == [cmd |-> c, opc |-> FALSE]

\* a test of the whole reply in place of bit 0
OpcSetAnyBit(reply) == reply # 0
\* `query_int("*ESR?") & 1 != 1` is the loop condition: the loop ends when bit 0 is set
OpcSet(reply) == (reply % (2 * OpcMask)) \div OpcMask = 1

\* bit 0 of a status reply, the operation-complete flag of the instrument
Bit0(reply) == reply % 2 = 1

\* a deadline test that gives up one interval before the deadline
ExpiredEarly(t, d) == t + SleepMs > d

\* a deadline test that lets two more intervals pass
ExpiredLate(t, d) == t >= d + SleepMs + SleepMs

\* a deadline test that fires at the deadline itself
ExpiredAtDeadline(t, d) == t >= d

\* `time.time() > timeout`
Expired(t, d) == t > d

-----------------------------------------------------------------------------
(* History of the transport *)

Entry(dev, kind, w) ==
    [dev |-> dev, kind |-> kind, cmd |-> w.cmd, opc |-> w.opc, conf |-> FALSE,
     by |-> op]

\* a poll that saw bit 0 set confirms the last write on that session
Confirm(s, dev) ==
    IF Len(s) > 0 /\ s[Len(s)].dev = dev /\ s[Len(s)].kind = "write"
    THEN [s EXCEPT ![Len(s)].conf = TRUE]
    ELSE s

NoCall == [phase |-> "idle", dev |-> "fsw", cmd |-> Plain("none"), ret |-> "none"]
\* the executor call in progress or last made, and what it has done so far: the
\* directive, where its transport calls start in `sent`, its writes of the
\* directive, polls, polls begun after the deadline, replies with bit 0 set, sleeps,
\* its last step and how it ended
NoCount == [dev |-> "fsw", cmd |-> Plain("none"), base |-> 0, writes |-> 0,
            polls |-> 0, late |-> 0, set |-> 0, sleeps |-> 0, last |-> "none",
            ret |-> "none"]
\* local variables of the operations
NoTr == [done |-> FALSE, std |-> << >>, cmd |-> Plain("none"), desc |-> "none"]

NoLoc == [std |-> << >>, bw |-> 0, mcs |-> 0, burst |-> 0, dn |-> 1, dd |-> 1,
          fdur |-> 0, itime |-> 0, cap |-> 0, warn |-> FALSE,
          gi |-> "none", bits |-> 0, sym |-> 0, raw |-> 0, bytes |-> 0, maxlen |-> 0, count |-> 0, rem |-> 0,
          mpdu |-> 0, freq |-> 0, got |-> FALSE, k |-> 0, caught |-> "none"]

\* the generator's settings are not followed: it may hold anything at any query
NoGen == [known |-> FALSE, changed |-> FALSE, fdur |-> 0, itime |-> 0, freq |-> 0,
          std |-> << >>]

\* no full_setup running and none finished since the last operation began
NoFs == [stage |-> "idle", gui |-> "none", std |-> << >>, status |-> "none",
         at |-> "none"]

\* the GUI's references and the links: gui is the application, fsw whether it holds
\* an analyzer session (self.fsw), kind how that session got its peer (self.fsw.smw),
\* smw whether the GUI holds a generator session of its own (self.smw), open the
\* links that are open on each instrument, lost those of them that no object
\* references any more, fails the connects that failed, was the peer kind at the last
\* close, ops the handlers run so far
Disconnected(g) ==
    [gui |-> g, fsw |-> FALSE, kind |-> "none", smw |-> FALSE,
     open |-> [d \in {"fsw", "smw"} |-> 0], lost |-> [d \in {"fsw", "smw"} |-> 0],
     fails |-> 0, was |-> "unconnected", last |-> "none", ops |-> 0]

\* RS_FSX_WLAN_AX_BE(address, tmo_s, smw_resource_id) has returned: one link to the
\* analyzer, and one to the generator when a peer address was given
Connected(p) ==
    [Disconnected("RS_FSX_GUI") EXCEPT
        !.fsw = TRUE, !.kind = IF p THEN "own" ELSE "none",
        !.open = [d \in {"fsw", "smw"} |-> IF d = "fsw" \/ p THEN 1 ELSE 0],
        !.last = "connect", !.ops = 1]

\* identifiers are sequences of characters
WBE == << "W", "B", "E" >>
WAX == << "W", "A", "X" >>

-----------------------------------------------------------------------------
(* Environment *)

\* outcomes of one call on the transport: RsInstrument raises RsInstrException when
\* the link is down or the device rejects the command
LinkOutcomes == IF env = "adverse" THEN {"ok", "fail"} ELSE {"ok"}

\* bits other than bit 0 that a status reply may carry
OtherBits == IF env = "adverse" THEN {0, CmeBit} ELSE {0}

\* wall-clock durations of a *ESR? query
QueryDurations ==
    IF env = "adverse" THEN {k * SleepMs : k \in 0..MaxQueryIntervals} ELSE {0}

\* a reply text and its conversion by float() / int(): a number or ValueError
Num(v) == [num |-> TRUE, v |-> v]
NotNum == [num |-> FALSE, v |-> 0]

\* standard identifiers handed to setup_WLAN_app and create_waveform
Standards ==
    IF env = "adverse" THEN {WBE} ELSE {WBE, WAX, << "w", "b", "e" >>, << "X" >>}

\* Real numbers are held in millionths: 1.0 is Unit.
Unit == 1000000

\* the generator's replies to FDURation? and ITIMe?, which it reports in
\* milliseconds: 10 ms, 200 ms; 10 ms, 100 ms, 50 ms
FdurReplies ==
    IF env = "adverse" THEN {Num(10 * Unit)}
    ELSE {Num(10 * Unit), Num(200 * Unit), NotNum}
ItimeReplies ==
    IF env = "adverse" THEN {Num(10 * Unit)}
    ELSE {Num(10 * Unit), Num(100 * Unit), Num(50 * Unit), NotNum}

\* the most MPDUs one waveform is explored with
MaxUnits == 5

\* arguments of create_waveform: standard, bw (the number in "BW320", 0 for a name
\* that is no bandwidth), mcs (the number in "MCS13"), burst_length in tenths of a
\* microsecond, duty_cycle = dn / dd
CwBase == [std |-> WBE, bw |-> 320, mcs |-> 13, burst |-> 40000, dn |-> 1, dd |-> 2]

CwArgs ==
    IF env = "adverse" THEN {CwBase}
    ELSE {[CwBase EXCEPT !.std = x] : x \in Standards}
         \cup {[CwBase EXCEPT !.bw = x] : x \in {0, 80}}
         \cup {[CwBase EXCEPT !.mcs = x] : x \in {0, 14}}
         \cup {[CwBase EXCEPT !.burst = b, !.dn = d[1], !.dd = d[2]] :
                  b \in {0, 432, 568, 636, 704, 40000},
                  d \in {<< 1, 2 >>, << 1, 1 >>, << 0, 1 >>, << 3, 2 >>, << -1, 2 >>}}

\* replies to GUARd?
GiReplies == IF env = "adverse" THEN {"GD08"} ELSE {"GD08", "GD16", "GD32", "GD04"}

\* replies to BPSymbol? (bits per symbol)
BpsReplies ==
    IF env = "adverse" THEN {Num(2048)}
    ELSE {Num(15), Num(800), Num(808), Num(2048), NotNum}

\* replies to MPDU1:DATA:LENGth? MAX for a waveform of `bytes` bytes: a maximum that
\* needs no more than MaxUnits MPDUs, or 0, or no number
MaxReplies(bytes) ==
    IF env = "adverse" THEN {Num(60000)}
    ELSE {Num(m) : m \in {n \in {1, 50, 100, 29000, 60000} :
                              (bytes \div n) + 1 <= MaxUnits}}
         \cup {Num(0), NotNum}

\* the instrument finishes a command that carries *OPC: ESR bit 0 is raised
InstrComplete(dev) ==
    /\ instr[dev].pend > 0
    /\ instr' = [instr EXCEPT ![dev] = [pend |-> @.pend - 1, esr0 |-> TRUE]]
    /\ UNCHANGED << gen, conn, fs, tr, env, peer, op, pc, loc, ex, now, deadline, qdur, sent,
                    call, result, err, opsRun >>

\* the instrument receives a directive with *OPC.  *CLS clears the status register.
\* A well-behaved instrument has finished before the next message is read.
Accept(st, c) ==
    IF env = "benign"
    THEN [pend |-> st.pend, esr0 |-> TRUE]
    ELSE [pend |-> st.pend + 1,
          esr0 |-> IF c.c = "*CLS; *RST" THEN FALSE ELSE st.esr0]

-----------------------------------------------------------------------------
(* Exceptions.  create_waveform catches every exception and returns -1; the *)
(* analyzer's operations log and re-raise.                                  *)

Exc(kind, c) == [kind |-> kind, names |-> c]
NoExc == Exc("none", Bare(Plain("none")))

\* TimeoutError(f"OPC timeout for write command '{command}'")
TimeoutMsg(c) == Exc("TimeoutError", Bare(c))

\* a handler that logs and carries on instead of re-raising
RaiseSwallowed(e) ==
    /\ result' = result
    /\ err' = e
    /\ pc' = pc
    /\ ex' = ex

\* a handler that re-raises in every operation
RaiseInAll(e) ==
    /\ result' = "raised"
    /\ err' = e
    /\ pc' = "done"
    /\ ex' = NoCall

\* `except ...: self.logger.error(...); raise`, up to the caller of the operation
Raise(e) ==
    /\ result' = IF op = "create_waveform" THEN "retm1" ELSE "raised"
    /\ err' = e
    /\ pc' = "done"
    /\ ex' = NoCall

\* enter write_command (analyzer) or opc_check (generator) with directive c;
\* control continues at label ret when it returns
EnterAt(dev, c, ret, base) ==
    /\ ex' = [phase |-> IF dev = "smw" THEN "ese" ELSE "write",
              dev |-> dev, cmd |-> c, ret |-> ret]
    /\ call' = [NoCount EXCEPT !.dev = dev, !.cmd = c, !.base = base]

Enter(dev, c, ret) == EnterAt(dev, c, ret, Len(sent))

-----------------------------------------------------------------------------
(* The completion-synchronized executor                                     *)

\* RS_SMX.opc_check: self.write_command("*ESE 1"); self.write_command("*SRE 32")
ExPrep ==
    /\ ex.phase \in {"ese", "sre"}
    /\ LET c == IF ex.phase = "ese" THEN Plain("*ESE 1") ELSE Plain("*SRE 32")
       IN  /\ sent' = Append(sent, Entry(ex.dev, "write", Bare(c)))
           /\ \E o \in LinkOutcomes :
                IF o = "ok"
                THEN /\ ex' = [ex EXCEPT !.phase = IF ex.phase = "ese" THEN "sre" ELSE "write"]
                     /\ call' = [call EXCEPT !.last = "prep"]
                     /\ UNCHANGED << pc, result, err >>
                ELSE /\ Raise(Exc("RsInstrException", Bare(c)))
                     /\ call' = [call EXCEPT !.last = "prep", !.ret = "transport"]
    /\ UNCHANGED << gen, conn, fs, tr, env, peer, op, loc, now, deadline, qdur, instr, opsRun >>

\* write_str(f"{command};*OPC"); timeout = time.time() + 10
ExWrite ==
    /\ ex.phase = "write"
    /\ sent' = Append(sent, Entry(ex.dev, "write", WithOpc(ex.cmd)))
    /\ \E o \in LinkOutcomes :
         IF o = "ok"
         THEN /\ ex' = [ex EXCEPT !.phase = "poll"]
              /\ call' = [call EXCEPT !.writes = @ + 1, !.last = "write"]
              /\ instr' = [instr EXCEPT ![ex.dev] = Accept(@, ex.cmd)]
              /\ now' = 0
              /\ deadline' = 0 + TimeoutMs
              /\ qdur' \in QueryDurations
              /\ UNCHANGED << pc, result, err >>
         ELSE /\ Raise(Exc("RsInstrException", Bare(ex.cmd)))
              /\ call' = [call EXCEPT !.writes = @ + 1, !.last = "write",
                                      !.ret = "transport"]
              /\ UNCHANGED << instr, now, deadline, qdur >>
    /\ UNCHANGED << gen, conn, fs, tr, env, peer, op, loc, opsRun >>

\* one evaluation of the loop condition: query_int("*ESR?") & 1 != 1.
\* Reading the event status register clears it.
ExPoll ==
    /\ ex.phase = "poll"
    /\ \E o \in LinkOutcomes :
         IF o = "ok"
         THEN \E b \in OtherBits :
                LET reply == (IF instr[ex.dev].esr0 THEN OpcMask ELSE 0) + b
                    seen == [call EXCEPT !.polls = @ + 1, !.last = "poll",
                                         !.late = @ + (IF now > deadline THEN 1 ELSE 0),
                                         !.set = @ + (IF Bit0(reply) THEN 1 ELSE 0)]
                IN  /\ now' = now + qdur
                    /\ instr' = [instr EXCEPT ![ex.dev].esr0 = FALSE]
                    /\ sent' = IF Bit0(reply) THEN Confirm(sent, ex.dev) ELSE sent
                    /\ IF OpcSet(reply)
                       THEN /\ ex' = NoCall
                            /\ pc' = ex.ret
                            /\ call' = [seen EXCEPT !.ret = "ok"]
                       ELSE /\ ex' = [ex EXCEPT !.phase = "decide"]
                            /\ call' = seen
                            /\ UNCHANGED pc
                    /\ UNCHANGED << result, err >>
         ELSE /\ Raise(Exc("RsInstrException", Bare(ex.cmd)))
              /\ call' = [call EXCEPT !.polls = @ + 1, !.last = "poll",
                                      !.late = @ + (IF now > deadline THEN 1 ELSE 0),
                                      !.ret = "transport"]
              /\ UNCHANGED << instr, now, sent >>
    /\ UNCHANGED << gen, conn, fs, tr, env, peer, op, loc, deadline, qdur, opsRun >>

\* a loop body that sleeps two intervals between polls
ExSleepTwice ==
    /\ ex.phase = "decide"
    /\ ~Expired(now, deadline)
    /\ now' = now + SleepMs + SleepMs
    /\ call' = [call EXCEPT !.sleeps = @ + 2, !.last = "sleep"]
    /\ ex' = [ex EXCEPT !.phase = "poll"]
    /\ UNCHANGED << gen, conn, fs, tr, env, peer, op, pc, loc, deadline, qdur, instr, sent, result,
                    err, opsRun >>

\* the loop body when the deadline has not passed: time.sleep(0.2)
ExSleep ==
    /\ ex.phase = "decide"
    /\ ~Expired(now, deadline)
    /\ now' = now + SleepMs
    /\ call' = [call EXCEPT !.sleeps = @ + 1, !.last = "sleep"]
    /\ ex' = [ex EXCEPT !.phase = "poll"]
    /\ UNCHANGED << gen, conn, fs, tr, env, peer, op, pc, loc, deadline, qdur, instr, sent, result,
                    err, opsRun >>

\* the loop body when the deadline has passed: raise TimeoutError
ExTimeout ==
    /\ ex.phase = "decide"
    /\ Expired(now, deadline)
    /\ Raise(TimeoutMsg(ex.cmd))
    /\ call' = [call EXCEPT !.ret = "timeout"]
    /\ UNCHANGED << gen, conn, fs, tr, env, peer, op, loc, now, deadline, qdur, instr, sent, opsRun >>

-----------------------------------------------------------------------------
(* WLAN_Standards_Translator *)

\* str.upper() on the characters that occur in identifiers
UpperChar(ch) ==
    CASE ch = "a" -> "A" [] ch = "b" -> "B" [] ch = "c" -> "C" [] ch = "e" -> "E"
      [] ch = "g" -> "G" [] ch = "i" -> "I" [] ch = "j" -> "J" [] ch = "m" -> "M"
      [] ch = "n" -> "N" [] ch = "o" -> "O" [] ch = "p" -> "P" [] ch = "w" -> "W"
      [] ch = "x" -> "X" [] OTHER -> ch

Upper(s) == [k \in 1..Len(s) |-> UpperChar(s[k])]

\* STANDARD_MAP: key -> (number, description, directive); dir is the number in the
\* directive text ":CONF:STAN <number>"
STANDARD_MAP ==
    { [key |-> << "W", "A", "X" >>, num |-> 10, desc |-> "IEEE 802.11ax",
       dir |-> 10],
      [key |-> << "W", "B", "E" >>, num |-> 11, desc |-> "IEEE 802.11be",
       dir |-> 11],
      [key |-> << "A" >>, num |-> 0, desc |-> "IEEE 802.11a",
       dir |-> 0],
      [key |-> << "B" >>, num |-> 1, desc |-> "IEEE 802.11b",
       dir |-> 1],
      [key |-> << "J", "1", "0" >>, num |-> 2, desc |-> "IEEE 802.11j (10 MHz)",
       dir |-> 2],
      [key |-> << "J", "2", "0" >>, num |-> 3, desc |-> "IEEE 802.11j (20 MHz)",
       dir |-> 3],
      [key |-> << "G" >>, num |-> 4, desc |-> "IEEE 802.11g",
       dir |-> 4],
      [key |-> << "N" >>, num |-> 6, desc |-> "IEEE 802.11n",
       dir |-> 6],
      [key |-> << "N", "_", "M", "I", "M", "O" >>, num |-> 7, desc |-> "IEEE 802.11n (MIMO)",
       dir |-> 7],
      [key |-> << "A", "C" >>, num |-> 8, desc |-> "IEEE 802.11ac",
       dir |-> 8],
      [key |-> << "P" >>, num |-> 9, desc |-> "IEEE 802.11p",
       dir |-> 9] }

\* a lookup by the first character alone
LookupByInitial(std) ==
    { e \in STANDARD_MAP : std # << >> /\ e.key[1] = Upper(std)[1] }

\* a lookup without .upper()
LookupExact(std) == { e \in STANDARD_MAP : e.key = std }

\* STANDARD_MAP.get(smw_standard.upper(), None)
Lookup(std) == { e \in STANDARD_MAP : e.key = Upper(std) }

\* the number in the default directive ":CONF:STAN 11"
DefaultStan == 11

to_fsw_command(std) ==
    IF Lookup(std) = {}
    THEN Cmd(":CONF:STAN", 0, DefaultStan, 1)
    ELSE Cmd(":CONF:STAN", 0, (CHOOSE e \in Lookup(std) : TRUE).dir, 1)

to_description(std) ==
    IF Lookup(std) = {}
    THEN "IEEE 802.11be (default)"
    ELSE (CHOOSE e \in Lookup(std) : TRUE).desc

-----------------------------------------------------------------------------
(* Operations of the analyzer session, RS_FSX_WLAN_AX_BE *)

\* a GUI that refuses its buttons after a failed run
CanStartUnlessFailed ==
    pc = "done" /\ fs.stage = "idle" /\ fs.status # "failed" /\ opsRun < MaxOps

\* the GUI is idle: a button handler can run
CanStart == pc = "done" /\ fs.stage = "idle" /\ opsRun < MaxOps

\* the operation is called by a button handler of its own, or by full_setup when
\* the run has reached the stage
MayStart(stage) == CanStart \/ (pc = "fs" /\ fs.stage = stage)

\* where the transport calls of the operation begin in `sent`
StartLen == IF fs.stage = "idle" THEN 0 ELSE Len(sent)

\* entry of an operation; `sent` and the count of operations follow the handler that
\* the GUI runs, full_setup as a whole when the call is one of its stages
Start(o, l) ==
    /\ op' = o
    /\ loc' = l
    /\ sent' = IF fs.stage = "idle" THEN << >> ELSE sent
    /\ opsRun' = IF fs.stage = "idle" THEN opsRun + 1 ELSE opsRun
    /\ fs' = IF fs.stage = "idle" THEN NoFs ELSE fs
    /\ now' = 0
    /\ deadline' = 0
    /\ qdur' = 0

\* FSW_preset: self.write_command("*CLS; *RST")
FSW_preset ==
    /\ MayStart("preset")
    /\ Start("FSW_preset", NoLoc)
    /\ EnterAt("fsw", Plain("*CLS; *RST"), "ret", StartLen)
    /\ pc' = "call"
    /\ result' = "none"
    /\ err' = NoExc
    /\ UNCHANGED << gen, conn, tr, env, peer, instr >>

\* FSW_autolevel: self.write_command(':CONF:POW:AUTO ONCE; *WAI')
FSW_autolevel ==
    /\ MayStart("level")
    /\ Start("FSW_autolevel", NoLoc)
    /\ EnterAt("fsw", Plain(":CONF:POW:AUTO ONCE; *WAI"), "ret", StartLen)
    /\ pc' = "call"
    /\ result' = "none"
    /\ err' = NoExc
    /\ UNCHANGED << gen, conn, tr, env, peer, instr >>

\* the operation returns normally (the analyzer's operations return None)
Return ==
    /\ pc = "ret"
    /\ op # "create_waveform"
    /\ ex.phase = "idle"
    /\ result' = "ok"
    /\ pc' = "done"
    /\ UNCHANGED << gen, conn, fs, tr, env, peer, op, loc, ex, now, deadline, qdur, instr, sent,
                    err, opsRun >>
    /\ call' = NoCount

\* a transport call that writes the text in place of querying
QueryAsWrite(c) == Entry("smw", "write", Bare(c))

\* self.smw.query_command(c): one query_str on the generator's transport
Query(c) == Entry("smw", "query", Bare(c))

\* max_capture_time_s = 1.0, in microseconds
MaxCaptureUs == 1000000
\* the factor in capture_time_s = 4 * (frame_duration_s + idle_time_s)
CaptureFactor == 4

\* the replies used as if they were seconds
MsToSSame(ms) == ms

\* frame_duration_ms / 1000.0, idle_time_ms / 1000.0
MsToS(ms) == ms \div 1000

\* capture_time_s = 4 * (frame_duration_s + idle_time_s), from the two replies
CaptureRaw(f, i) == CaptureFactor * (MsToS(f) + MsToS(i))

\* a test that also fires at the ceiling
CaptureWarnInclusive(raw) == raw >= MaxCaptureUs

\* capture_time_s > max_capture_time_s
CaptureWarn(raw) == raw > MaxCaptureUs

CaptureCapped(raw) == IF CaptureWarn(raw) THEN MaxCaptureUs ELSE raw

\* the five directives setup_WLAN_app sends first
SetupCmd(k, std) ==
    CASE k = 1 -> Plain(":INST:CRE:NEW WLAN, \"WLAN\"")
      [] k = 2 -> to_fsw_command(std)
      [] k = 3 -> Plain(":CONF:POW:AUTO ONCE; *WAI")
      [] k = 4 -> Plain(":INP:GAIN:STAT OFF")
      [] k = 5 -> Plain(":TRIG:SEQ:SOUR EXT")

SetupLabel(k) ==
    CASE k = 1 -> "w1" [] k = 2 -> "w2" [] k = 3 -> "w3" [] k = 4 -> "w4"
      [] k = 5 -> "w5" [] OTHER -> "peer"

\* setup_WLAN_app(standard) is called
setup_WLAN_app ==
    /\ MayStart("setup")
    /\ \E std \in (IF fs.stage = "idle" THEN Standards ELSE {fs.std}) :
         Start("setup_WLAN_app", [NoLoc EXCEPT !.std = std])
    /\ ex' = NoCall
    /\ call' = NoCount
    /\ pc' = SetupLabel(1)
    /\ result' = "none"
    /\ err' = NoExc
    /\ UNCHANGED << gen, conn, tr, env, peer, instr >>

\* lines 143-148: the k-th write_command of setup_WLAN_app
SetupWrite ==
    /\ op = "setup_WLAN_app"
    /\ ex.phase = "idle"
    /\ \E k \in 1..5 :
         /\ pc = SetupLabel(k)
         /\ Enter("fsw", SetupCmd(k, loc.std), SetupLabel(k + 1))
    /\ pc' = "call"
    /\ UNCHANGED << gen, conn, fs, tr, env, peer, op, loc, now, deadline, qdur, instr, sent,
                    result, err, opsRun >>

\* `if self.smw:` ... `else:` warning, then the closing log line
SetupPeer ==
    /\ op = "setup_WLAN_app"
    /\ pc = "peer"
    /\ ex.phase = "idle"
    /\ pc' = IF peer THEN "fdur" ELSE "ret"
    /\ UNCHANGED << gen, conn, fs, tr, env, peer, op, loc, ex, now, deadline, qdur, instr,
                    sent, result, err, opsRun >>
    /\ call' = NoCount

\* float(self.smw.query_command("SOURce1:BB:WLNN:FBLock1:DATA:FDURation?"))
SetupQueryFdur ==
    /\ op = "setup_WLAN_app"
    /\ pc = "fdur"
    /\ sent' = Append(sent, Query(Plain("FDURation?")))
    /\ \E o \in LinkOutcomes, r \in FdurReplies :
         IF o = "fail"
         THEN /\ Raise(Exc("RsInstrException", Bare(Plain("FDURation?"))))
              /\ UNCHANGED loc
         ELSE IF ~r.num
         THEN /\ Raise(Exc("ValueError", Bare(Plain("FDURation?"))))
              /\ UNCHANGED loc
         ELSE /\ loc' = [loc EXCEPT !.fdur = r.v]
              /\ pc' = "itime"
              /\ UNCHANGED << ex, result, err >>
    /\ UNCHANGED << gen, conn, fs, tr, env, peer, op, now, deadline, qdur, instr, opsRun >>
    /\ call' = NoCount

\* float(self.smw.query_command("SOURce1:BB:WLNN:FBLock1:ITIMe?"))
SetupQueryItime ==
    /\ op = "setup_WLAN_app"
    /\ pc = "itime"
    /\ sent' = Append(sent, Query(Plain("ITIMe?")))
    /\ \E o \in LinkOutcomes, r \in ItimeReplies :
         IF o = "fail"
         THEN /\ Raise(Exc("RsInstrException", Bare(Plain("ITIMe?"))))
              /\ UNCHANGED loc
         ELSE IF ~r.num
         THEN /\ Raise(Exc("ValueError", Bare(Plain("ITIMe?"))))
              /\ UNCHANGED loc
         ELSE /\ loc' = [loc EXCEPT !.itime = r.v]
              /\ pc' = "swe"
              /\ UNCHANGED << ex, result, err >>
    /\ UNCHANGED << gen, conn, fs, tr, env, peer, op, now, deadline, qdur, instr, opsRun >>
    /\ call' = NoCount

\* lines 154-162: derive the capture time, cap it, write_command(":SENS:SWE:TIME ...")
SetupSweep ==
    /\ op = "setup_WLAN_app"
    /\ pc = "swe"
    /\ LET raw == CaptureRaw(loc.fdur, loc.itime)
       IN  /\ loc' = [loc EXCEPT !.cap = CaptureCapped(raw), !.warn = CaptureWarn(raw)]
           /\ Enter("fsw", Cmd(":SENS:SWE:TIME", 0, CaptureCapped(raw), 1), "ret")
    /\ pc' = "call"
    /\ UNCHANGED << gen, conn, fs, tr, env, peer, op, now, deadline, qdur, instr, sent,
                    result, err, opsRun >>

\* the replies of the generator to FREQ:CW?, in MHz
FreqReplies ==
    IF env = "adverse" THEN {Num(6000)} ELSE {Num(6000), Num(5180), NotNum}

\* the replies to SOURce1:POW:LEV:IMM:AMPL?  Only whether float() accepts the text
\* matters to the operations.
PowReplies == IF env = "adverse" THEN {Num(0)} ELSE {Num(0), NotNum}

\* the ten queries of extract_settings_from_generator, in the order Python
\* evaluates them: the two durations, then the dict display from top to bottom
ExtractNames ==
    << "FDURation?", "ITIMe?", "FREQ:CW?", "POW:LEV:IMM:AMPL?", "OUTPut1:STATe?",
       "WLNN:STATe?", "STANdard?", "BWidth?", "MCS?", "GUARd?" >>

\* the queries whose reply goes through float()
NumericQueries == {1, 2, 3, 4}

\* a reply: its numeric reading, and the identifier it spells when it is a standard
Reply(r, id) == [num |-> r.num, v |-> r.v, id |-> id]

\* what the generator answers: the setting it holds where the run follows it
Held(v, all) == IF gen.known THEN {v} ELSE all

ExtractReplies(k) ==
    CASE k = 1 -> { Reply(r, << >>) : r \in Held(Num(gen.fdur), FdurReplies) }
      [] k = 2 -> { Reply(r, << >>) : r \in Held(Num(gen.itime), ItimeReplies) }
      [] k = 3 -> { Reply(r, << >>) : r \in Held(Num(gen.freq), FreqReplies) }
      [] k = 4 -> { Reply(r, << >>) : r \in PowReplies }
      [] k = 7 -> { Reply(NotNum, id) : id \in Held(gen.std, Standards) }
      [] OTHER -> { Reply(NotNum, << >>) }

\* a failing link is explored at the first and at the last query of the extraction
ExtractOutcomes(k) ==
    IF k \in {1, Len(ExtractNames)} THEN LinkOutcomes ELSE {"ok"}

\* a settings dict that keeps what it held before the call
ExtractStoreStale(l, k, r) == l

\* the entries of the settings dict that the operations read afterwards
ExtractStore(l, k, r) ==
    CASE k = 1 -> [l EXCEPT !.fdur = MsToS(r.v)]
      [] k = 2 -> [l EXCEPT !.itime = MsToS(r.v)]
      [] k = 3 -> [l EXCEPT !.freq = r.v]
      [] k = 7 -> [l EXCEPT !.std = r.id]
      [] OTHER -> l

\* an extraction that lets the exception out to its caller
ExtractEndRaising(l, got) ==
    /\ loc' = [l EXCEPT !.got = got, !.k = 0]
    /\ pc' = IF op = "sync_with_smw" /\ got THEN "synccheck" ELSE "done"
    /\ result' = IF got THEN (IF op = "sync_with_smw" THEN result ELSE "settings")
                  ELSE "raised"

\* extract_settings_from_generator returns: the dict (got) or {} to a caller, or
\* to sync_with_smw, which goes on with its own check
ExtractEnd(l, got) ==
    /\ loc' = [l EXCEPT !.got = got, !.k = 0]
    /\ IF op = "sync_with_smw"
       THEN /\ pc' = "synccheck"
            /\ UNCHANGED result
       ELSE /\ pc' = "done"
            /\ result' = IF got THEN "settings" ELSE "empty"

\* a session that takes its peer for present
SmwSetAlways == TRUE

\* the truth value of self.smw
SmwSet == peer

\* extract_settings_from_generator is called; lines 183-185 return {} without a peer
extract_settings_from_generator ==
    /\ CanStart \/ (pc = "fs" /\ fs.stage \in {"extract", "post"})
    /\ Start("extract_settings_from_generator", [NoLoc EXCEPT !.k = IF SmwSet THEN 1 ELSE 0])
    /\ ex' = NoCall
    /\ call' = NoCount
    /\ pc' = IF SmwSet THEN "xq" ELSE "done"
    /\ result' = IF SmwSet THEN "none" ELSE "empty"
    /\ err' = NoExc
    /\ UNCHANGED << gen, conn, tr, env, peer, instr >>

\* lines 188-198: the next query on the generator.  A failed link or a reply that
\* float() rejects ends in one of the two except clauses, which log the exception
\* they caught and return {}.
ExtractQuery ==
    /\ op \in {"extract_settings_from_generator", "sync_with_smw"}
    /\ pc = "xq"
    /\ sent' = Append(sent, Query(Plain(ExtractNames[loc.k])))
    /\ \E o \in ExtractOutcomes(loc.k), r \in ExtractReplies(loc.k) :
         IF o = "fail" \/ (loc.k \in NumericQueries /\ ~r.num)
         THEN ExtractEnd([NoLoc EXCEPT !.caught = IF o = "fail" THEN "RsInstrException"
                                                  ELSE "ValueError"], FALSE)
         ELSE IF loc.k = Len(ExtractNames)
         THEN ExtractEnd(ExtractStore(loc, loc.k, r), TRUE)
         ELSE /\ loc' = [ExtractStore(loc, loc.k, r) EXCEPT !.k = loc.k + 1]
              /\ UNCHANGED << pc, result >>
    /\ call' = NoCount
    /\ UNCHANGED << gen, conn, fs, tr, env, peer, op, ex, now, deadline, qdur, instr, err,
                    opsRun >>

\* sync_with_smw is called; lines 213-215 return without a peer, line 218 calls
\* extract_settings_from_generator
sync_with_smw ==
    /\ MayStart("sync")
    /\ Start("sync_with_smw", [NoLoc EXCEPT !.k = IF SmwSet THEN 1 ELSE 0])
    /\ ex' = NoCall
    /\ call' = NoCount
    /\ pc' = IF SmwSet THEN "xq" ELSE "ret"
    /\ result' = "none"
    /\ err' = NoExc
    /\ UNCHANGED << gen, conn, tr, env, peer, instr >>

\* lines 219-222: `if not settings: raise ValueError`, else
\* write_command(f":FREQ:CENT {settings['frequency_hz']}")
SyncCheck ==
    /\ op = "sync_with_smw"
    /\ pc = "synccheck"
    /\ IF loc.got
       THEN /\ Enter("fsw", Cmd(":FREQ:CENT", 0, loc.freq, 1), "syncstd")
            /\ pc' = "call"
            /\ UNCHANGED << result, err >>
       ELSE /\ Raise(Exc("ValueError", Bare(Plain("settings"))))
            /\ call' = NoCount
    /\ UNCHANGED << gen, conn, fs, tr, env, peer, op, loc, now, deadline, qdur, instr, sent,
                    opsRun >>

\* lines 223-224: write_command(to_fsw_command(settings["standard"]))
SyncStandard ==
    /\ op = "sync_with_smw"
    /\ pc = "syncstd"
    /\ Enter("fsw", to_fsw_command(loc.std), "ret")
    /\ pc' = "call"
    /\ UNCHANGED << gen, conn, fs, tr, env, peer, op, loc, now, deadline, qdur, instr, sent,
                    result, err, opsRun >>

-----------------------------------------------------------------------------
(* The GUIs' full_setup handler: RS_FSX_GUI and CombinedSMWFSWGUI.  A run    *)
(* goes through stages, each one call into the analyzer session.            *)

Guis == {"RS_FSX_GUI", "CombinedSMWFSWGUI"}

\* a run that auto-levels straight after the application configuration
NextStageLevelEarly(stage, p, gui) ==
    CASE stage = "preset" -> IF p THEN "extract" ELSE "setup"
      [] stage = "extract" -> "setup"
      [] stage = "setup" -> "level"
      [] stage = "level" -> IF p THEN "sync" ELSE "end"
      [] stage = "sync" -> IF gui = "RS_FSX_GUI" THEN "post" ELSE "end"
      [] OTHER -> "end"

\* a handler that does not test self.fsw.smw
NextStageIgnoresPeer(stage, p, gui) ==
    CASE stage = "preset" -> "extract"
      [] stage = "extract" -> "setup"
      [] stage = "setup" -> "sync"
      [] stage = "sync" -> IF gui = "RS_FSX_GUI" THEN "post" ELSE "level"
      [] stage = "post" -> "level"
      [] OTHER -> "end"

\* the statements of the try block in order: FSW_preset; extract (with a peer);
\* setup_WLAN_app; sync_with_smw (with a peer), after which RS_FSX_GUI extracts
\* again for its status line; FSW_autolevel
NextStage(stage, p, gui) ==
    CASE stage = "preset" -> IF p THEN "extract" ELSE "setup"
      [] stage = "extract" -> "setup"
      [] stage = "setup" -> IF p THEN "sync" ELSE "level"
      [] stage = "sync" -> IF gui = "RS_FSX_GUI" THEN "post" ELSE "level"
      [] stage = "post" -> "level"
      [] OTHER -> "end"

\* the Full Setup button of either GUI
full_setup ==
    /\ CanStart
    /\ \E g \in Guis : fs' = [NoFs EXCEPT !.stage = "preset", !.gui = g]
    /\ op' = "full_setup"
    /\ pc' = "fs"
    /\ loc' = NoLoc
    /\ sent' = << >>
    /\ opsRun' = opsRun + 1
    /\ ex' = NoCall
    /\ call' = NoCount
    /\ result' = "none"
    /\ err' = NoExc
    /\ now' = 0
    /\ deadline' = 0
    /\ qdur' = 0
    /\ UNCHANGED << gen, conn, tr, env, peer, instr >>

\* a handler that carries on with the next statement after an exception
AbortsNever(res) == FALSE

\* `except Exception as e:` of full_setup catches what a stage raised
Aborts(res) == res = "raised"

\* a stage has returned or raised.  `except Exception` ends the run with the status
\* "Full setup failed"; otherwise the next statement runs, and after the last one
\* the status is "Full setup completed".  standard = settings.get("standard", "WBE")
FsStep ==
    /\ pc = "done"
    /\ fs.stage # "idle"
    /\ IF Aborts(result)
       THEN /\ fs' = [fs EXCEPT !.stage = "idle", !.status = "failed", !.at = fs.stage]
            /\ UNCHANGED pc
       ELSE LET n == NextStage(fs.stage, peer, fs.gui)
            IN  IF n = "end"
                THEN /\ fs' = [fs EXCEPT !.stage = "idle", !.status = "completed"]
                     /\ UNCHANGED pc
                ELSE /\ fs' = [fs EXCEPT !.stage = n,
                                         !.std = IF n # "setup" THEN @
                                                 ELSE IF result = "settings" THEN loc.std
                                                 ELSE WBE]
                     /\ pc' = "fs"
    /\ UNCHANGED << gen, conn, tr, env, peer, op, loc, ex, now, deadline, qdur, instr, sent,
                    call, result, err, opsRun >>

-----------------------------------------------------------------------------
(* The transmit-side planner of RS_SMX.create_waveform.  Times are in       *)
(* tenths of a microsecond.                                                 *)

\* header_duration = 43.2e-6
HeaderDuration == 432
\* the OFDM symbol without guard interval, 12.8e-6
SymbolCore == 128
\* no_of_bytes_required -= 100, and the assert before it
SafetyMargin == 100
\* bytes_per_symbol = bits_per_symbol // 8
BitsPerByte == 8
\* the dict default of the guard-interval lookup, 0.8e-6
DefaultGi == 8

\* {"GD08": 0.8e-6, "GD16": 1.6e-6, "GD32": 3.2e-6}.get(gi, 0.8e-6)
GiValue(gi) ==
    CASE gi = "GD08" -> 8 [] gi = "GD16" -> 16 [] gi = "GD32" -> 32 [] OTHER -> DefaultGi

SymbolDuration(gi) == SymbolCore + GiValue(gi)

\* truncation in place of rounding
RoundDown(n, d) == n \div d

\* round(n / d, 0) for d > 0: to the nearest integer, a tie to the even one
Round(n, d) ==
    LET q == n \div d
        r == n % d
    IN  IF 2 * r < d THEN q
        ELSE IF 2 * r > d THEN q + 1
        ELSE IF q % 2 = 0 THEN q ELSE q + 1

\* the symbol count with the header not taken off
SymbolsRequiredNoHeader(burst, gi) == Round(burst, SymbolDuration(gi))

\* no_of_symbols_required = round((burst_length - header_duration) / symbol_duration, 0)
SymbolsRequired(burst, gi) == Round(burst - HeaderDuration, SymbolDuration(gi))

BytesPerSymbol(bits) == bits \div BitsPerByte

\* no_of_bytes_required before the margin is taken off
BytesRaw(sym, bits) == sym * BytesPerSymbol(bits)

\* the assert left out
MarginOkAlways(raw) == TRUE

\* the assert with >= in place of >
MarginOkInclusive(raw) == raw >= SafetyMargin

\* assert no_of_bytes_required > 100
MarginOk(raw) == raw > SafetyMargin

\* no_of_bytes_required -= 100
BytesRequired(raw) == raw - SafetyMargin

\* the quotient alone
MpduCountFloor(bytes, maxlen) == bytes \div maxlen

\* divmod(no_of_bytes_required, max_bytes_per_mpdu), then int(quotient + 1)
MpduCount(bytes, maxlen) == (bytes \div maxlen) + 1

\* the remainder of that divmod
Remainder(bytes, maxlen) == bytes % maxlen

\* the length written for MPDU number k (1-based) of count
UnitLength(k, count, rem, maxlen) == IF k = count THEN rem ELSE maxlen

\* the check without its upper limit
DutyValidPositive(dn, dd) == 0 < dn

\* the check with 0 let through
DutyValidClosed(dn, dd) == 0 <= dn /\ dn <= dd

\* `not 0 < duty_cycle <= 1`, for duty_cycle = dn / dd with dd > 0
DutyValid(dn, dd) == 0 < dn /\ dn <= dd

\* idle_time = burst_length * (1 / duty_cycle) - burst_length, as the fraction
\* numerator / denominator
IdleNum(burst, dn, dd) == burst * dd - burst * dn
IdleDen(burst, dn, dd) == dn

\* Bandwidth[bw.upper()]: BW20, BW40, BW80, BW160, BW320
Bandwidths == {20, 40, 80, 160, 320}
\* MCS_DATA of 802.11be: MCS 0-13
McsData == 0..13

-----------------------------------------------------------------------------
(* RS_SMX.create_waveform(standard, bw, mcs, burst_length, duty_cycle)      *)

\* RS_SMX.write_command(c): one write_str, without the handshake
\* and the caller's locals l after it
SmxWrite(c, next, l) ==
    /\ sent' = Append(sent, Entry("smw", "write", Bare(c)))
    /\ \E o \in LinkOutcomes :
         IF o = "ok"
         THEN /\ pc' = next
              /\ loc' = l
              /\ UNCHANGED << ex, result, err >>
         ELSE /\ Raise(Exc("RsInstrException", Bare(c)))
              /\ UNCHANGED loc

\* the call, and the duty-cycle validation that opens it
create_waveform ==
    /\ CanStart
    /\ \E a \in CwArgs :
         /\ Start("create_waveform",
                  [NoLoc EXCEPT !.std = a.std, !.bw = a.bw, !.mcs = a.mcs,
                                !.burst = a.burst, !.dn = a.dn, !.dd = a.dd])
         /\ IF DutyValid(a.dn, a.dd)
            THEN /\ pc' = "state0"
                 /\ result' = "none"
                 /\ err' = NoExc
            ELSE /\ pc' = "done"
                 /\ result' = "retm1"
                 /\ err' = Exc("ValueError", Bare(Plain("duty_cycle")))
    /\ ex' = NoCall
    /\ call' = NoCount
    /\ UNCHANGED << gen, conn, tr, env, peer, instr >>

\* self.write_command("SOURce1:BB:WLNN:STATe 0")
CwState0 ==
    /\ op = "create_waveform"
    /\ pc = "state0"
    /\ SmxWrite(Cmd("WLNN:STATe", 0, 0, 1), "preset", loc)
    /\ UNCHANGED << gen, conn, fs, tr, env, peer, op, now, deadline, qdur, instr, opsRun >>
    /\ call' = NoCount

\* self.opc_check("SOURce1:BB:WLNN:PRESet")
CwPreset ==
    /\ op = "create_waveform"
    /\ pc = "preset"
    /\ Enter("smw", Plain("WLNN:PRESet"), "bw")
    /\ pc' = "call"
    /\ UNCHANGED << gen, conn, fs, tr, env, peer, op, loc, now, deadline, qdur, instr, sent, result,
                    err, opsRun >>

\* Bandwidth[bw.upper()].value, then self.opc_check(f"SOURce1:BB:WLNN:BWidth {bw_value}")
CwBandwidth ==
    /\ op = "create_waveform"
    /\ pc = "bw"
    /\ ex.phase = "idle"
    /\ IF loc.bw \in Bandwidths
       THEN /\ Enter("smw", Cmd("WLNN:BWidth", 0, loc.bw, 1), "std")
            /\ pc' = "call"
            /\ UNCHANGED << result, err >>
       ELSE /\ Raise(Exc("ValueError", Bare(Plain("bw"))))
            /\ call' = NoCount
    /\ UNCHANGED << gen, conn, fs, tr, env, peer, op, loc, now, deadline, qdur, instr, sent, opsRun >>

\* `if standard != "WBE": raise ValueError`, then opc_check("...:STANdard WBE")
CwStandard ==
    /\ op = "create_waveform"
    /\ pc = "std"
    /\ ex.phase = "idle"
    /\ IF loc.std = WBE
       THEN /\ Enter("smw", Plain("FBLOck1:STANdard WBE"), "tmode")
            /\ pc' = "call"
            /\ UNCHANGED << result, err >>
       ELSE /\ Raise(Exc("ValueError", Bare(Plain("standard"))))
            /\ call' = NoCount
    /\ UNCHANGED << gen, conn, fs, tr, env, peer, op, loc, now, deadline, qdur, instr, sent, opsRun >>

\* tx_mode = f"EHT{bw_value[2:]}"; self.opc_check(f"...:TMOde {tx_mode}")
CwTxMode ==
    /\ op = "create_waveform"
    /\ pc = "tmode"
    /\ ex.phase = "idle"
    /\ Enter("smw", Cmd("FBLOck1:TMOde EHT", 0, loc.bw, 1), "mcs")
    /\ pc' = "call"
    /\ UNCHANGED << gen, conn, fs, tr, env, peer, op, loc, now, deadline, qdur, instr, sent, result,
                    err, opsRun >>

\* `if mcs_index not in self.ieee_80211be.MCS_DATA: raise ValueError`, then
\* self.opc_check(f"...:USER1:MCS {mcs}")
CwMcs ==
    /\ op = "create_waveform"
    /\ pc = "mcs"
    /\ ex.phase = "idle"
    /\ IF loc.mcs \in McsData
       THEN /\ Enter("smw", Cmd("USER1:MCS MCS", 0, loc.mcs, 1), "gi")
            /\ pc' = "call"
            /\ UNCHANGED << result, err >>
       ELSE /\ Raise(Exc("ValueError", Bare(Plain("mcs"))))
            /\ call' = NoCount
    /\ UNCHANGED << gen, conn, fs, tr, env, peer, op, loc, now, deadline, qdur, instr, sent, opsRun >>

\* gi = self.query_command("...:GUARd?") and the symbol duration
CwQueryGi ==
    /\ op = "create_waveform"
    /\ pc = "gi"
    /\ ex.phase = "idle"
    /\ sent' = Append(sent, Query(Plain("GUARd?")))
    /\ \E o \in LinkOutcomes, g \in GiReplies :
         IF o = "fail"
         THEN /\ Raise(Exc("RsInstrException", Bare(Plain("GUARd?"))))
              /\ UNCHANGED loc
         ELSE /\ loc' = [loc EXCEPT !.gi = g]
              /\ pc' = "bps"
              /\ UNCHANGED << ex, result, err >>
    /\ UNCHANGED << gen, conn, fs, tr, env, peer, op, now, deadline, qdur, instr, opsRun >>
    /\ call' = NoCount

\* bits_per_symbol = int(self.query_command("...:BPSymbol?")), the symbol and byte
\* counts, `assert no_of_bytes_required > 100` and the margin
CwQueryBps ==
    /\ op = "create_waveform"
    /\ pc = "bps"
    /\ sent' = Append(sent, Query(Plain("BPSymbol?")))
    /\ \E o \in LinkOutcomes, r \in BpsReplies :
         LET sym == SymbolsRequired(loc.burst, loc.gi)
             raw == BytesRaw(sym, r.v)
         IN  IF o = "fail"
             THEN /\ Raise(Exc("RsInstrException", Bare(Plain("BPSymbol?"))))
                  /\ UNCHANGED loc
             ELSE IF ~r.num
             THEN /\ Raise(Exc("ValueError", Bare(Plain("BPSymbol?"))))
                  /\ UNCHANGED loc
             ELSE IF ~MarginOk(raw)
             THEN /\ Raise(Exc("AssertionError", Bare(Plain("bytes"))))
                  /\ loc' = [loc EXCEPT !.bits = r.v, !.sym = sym, !.raw = raw,
                                         !.bytes = raw]
             ELSE /\ loc' = [loc EXCEPT !.bits = r.v, !.sym = sym, !.raw = raw,
                                         !.bytes = BytesRequired(raw)]
                  /\ pc' = "max"
                  /\ UNCHANGED << ex, result, err >>
    /\ UNCHANGED << gen, conn, fs, tr, env, peer, op, now, deadline, qdur, instr, opsRun >>
    /\ call' = NoCount

\* max_bytes_per_mpdu = int(self.query_command("...:MPDU1:DATA:LENGth? MAX")) and
\* the divmod that gives the MPDU count and the remainder
CwQueryMax ==
    /\ op = "create_waveform"
    /\ pc = "max"
    /\ sent' = Append(sent, Query(Plain("MPDU1:DATA:LENGth? MAX")))
    /\ \E o \in LinkOutcomes, r \in MaxReplies(loc.bytes) :
         IF o = "fail"
         THEN /\ Raise(Exc("RsInstrException", Bare(Plain("MPDU1:DATA:LENGth? MAX"))))
              /\ UNCHANGED loc
         ELSE IF ~r.num
         THEN /\ Raise(Exc("ValueError", Bare(Plain("MPDU1:DATA:LENGth? MAX"))))
              /\ UNCHANGED loc
         ELSE IF r.v = 0
         THEN /\ Raise(Exc("ZeroDivisionError", Bare(Plain("divmod"))))
              /\ UNCHANGED loc
         ELSE /\ loc' = [loc EXCEPT !.maxlen = r.v,
                                    !.count = MpduCount(loc.bytes, r.v),
                                    !.rem = Remainder(loc.bytes, r.v)]
              /\ pc' = "count"
              /\ UNCHANGED << ex, result, err >>
    /\ UNCHANGED << gen, conn, fs, tr, env, peer, op, now, deadline, qdur, instr, opsRun >>
    /\ call' = NoCount

\* self.opc_check(f"...:USER1:MPDU1:COUNt {no_of_mpdus_required}")
CwCount ==
    /\ op = "create_waveform"
    /\ pc = "count"
    /\ Enter("smw", Cmd("MPDU1:COUNt", 0, loc.count, 1), "unit")
    /\ pc' = "call"
    /\ UNCHANGED << gen, conn, fs, tr, env, peer, op, loc, now, deadline, qdur, instr, sent, result,
                    err, opsRun >>

\* a loop that runs once more than the count sent
CwUnitSourceOneMore ==
    /\ op = "create_waveform"
    /\ pc = "unit"
    /\ ex.phase = "idle"
    /\ IF loc.mpdu <= loc.count
       THEN SmxWrite(Cmd("MPDU:DATA:SOURce PN23", loc.mpdu + 1, 0, 1), "len", loc)
       ELSE /\ pc' = "idle"
            /\ UNCHANGED << loc, sent, ex, result, err >>
    /\ UNCHANGED << gen, conn, fs, tr, env, peer, op, now, deadline, qdur, instr, opsRun >>
    /\ call' = NoCount

\* `for mpdu in range(no_of_mpdus_required)`: the loop test, and
\* self.write_command(f"...:MPDU{mpdu + 1}:DATA:SOURce PN23")
CwUnitSource ==
    /\ op = "create_waveform"
    /\ pc = "unit"
    /\ ex.phase = "idle"
    /\ IF loc.mpdu < loc.count
       THEN SmxWrite(Cmd("MPDU:DATA:SOURce PN23", loc.mpdu + 1, 0, 1), "len", loc)
       ELSE /\ pc' = "idle"
            /\ UNCHANGED << loc, sent, ex, result, err >>
    /\ UNCHANGED << gen, conn, fs, tr, env, peer, op, now, deadline, qdur, instr, opsRun >>
    /\ call' = NoCount

\* self.write_command(f"...:MPDU{mpdu + 1}:DATA:LENGth {...}"): the remainder for
\* the last MPDU, max_bytes_per_mpdu for the others
CwUnitLength ==
    /\ op = "create_waveform"
    /\ pc = "len"
    /\ SmxWrite(Cmd("MPDU:DATA:LENGth", loc.mpdu + 1,
                    UnitLength(loc.mpdu + 1, loc.count, loc.rem, loc.maxlen), 1), "unit",
                [loc EXCEPT !.mpdu = @ + 1])
    /\ UNCHANGED << gen, conn, fs, tr, env, peer, op, now, deadline, qdur, instr, opsRun >>
    /\ call' = NoCount

\* idle_time = burst_length * (1 / duty_cycle) - burst_length;
\* self.opc_check(f"...:FBLock1:ITIMe {idle_time}")
CwIdle ==
    /\ op = "create_waveform"
    /\ pc = "idle"
    /\ Enter("smw", Cmd("FBLock1:ITIMe", 0, IdleNum(loc.burst, loc.dn, loc.dd),
                        IdleDen(loc.burst, loc.dn, loc.dd)), "cwfdur")
    /\ pc' = "call"
    /\ UNCHANGED << gen, conn, fs, tr, env, peer, op, loc, now, deadline, qdur, instr, sent, result,
                    err, opsRun >>

\* Frame_Duration = self.query_command("...:DATA:FDURation?"), the prints, return 0
CwQueryFdur ==
    /\ op = "create_waveform"
    /\ pc = "cwfdur"
    /\ ex.phase = "idle"
    /\ sent' = Append(sent, Query(Plain("FDURation?")))
    /\ \E o \in LinkOutcomes :
         IF o = "fail"
         THEN Raise(Exc("RsInstrException", Bare(Plain("FDURation?"))))
         ELSE /\ result' = "ret0"
              /\ pc' = "done"
              /\ UNCHANGED << ex, err >>
    /\ UNCHANGED << gen, conn, fs, tr, env, peer, op, loc, now, deadline, qdur, instr, opsRun >>
    /\ call' = NoCount

-----------------------------------------------------------------------------
(* The specification *)

\* no operation has run yet on the session
Quiet ==
    /\ op = "none"
    /\ pc = "done"
    /\ loc = NoLoc
    /\ ex = NoCall
    /\ now = 0
    /\ deadline = 0
    /\ qdur = 0
    /\ instr = [d \in Devs |-> [pend |-> 0, esr0 |-> FALSE]]
    /\ sent = << >>
    /\ call = NoCount
    /\ result = "none"
    /\ err = NoExc
    /\ opsRun = 0
    /\ tr = NoTr
    /\ fs = NoFs

Init ==
    /\ env \in {"benign", "adverse"}
    /\ peer \in BOOLEAN
    /\ Quiet
    /\ conn = Connected(peer)
    /\ gen = NoGen

Next ==
    \/ FSW_preset
    \/ FSW_autolevel
    \/ setup_WLAN_app
    \/ SetupWrite
    \/ SetupPeer
    \/ SetupQueryFdur
    \/ SetupQueryItime
    \/ SetupSweep
    \/ Return
    \/ extract_settings_from_generator
    \/ ExtractQuery
    \/ sync_with_smw
    \/ SyncCheck
    \/ SyncStandard
    \/ full_setup
    \/ FsStep
    \/ create_waveform
    \/ CwState0
    \/ CwPreset
    \/ CwBandwidth
    \/ CwStandard
    \/ CwTxMode
    \/ CwMcs
    \/ CwQueryGi
    \/ CwQueryBps
    \/ CwQueryMax
    \/ CwCount
    \/ CwUnitSource
    \/ CwUnitLength
    \/ CwIdle
    \/ CwQueryFdur
    \/ ExPrep
    \/ ExWrite
    \/ ExPoll
    \/ ExSleep
    \/ ExTimeout
    \/ \E d \in Devs : InstrComplete(d)

Spec == Init /\ [][Next]_vars

-----------------------------------------------------------------------------
(* The translator on its own: to_fsw_command and to_description are static   *)
(* methods, applied here to identifiers of every kind.                       *)

\* the longest identifier that is explored beyond the spellings of the keys
MaxIdLen == 2

\* str.lower() on the characters of the keys
LowerChar(ch) ==
    CASE ch = "A" -> "a" [] ch = "B" -> "b" [] ch = "C" -> "c" [] ch = "E" -> "e"
      [] ch = "G" -> "g" [] ch = "I" -> "i" [] ch = "J" -> "j" [] ch = "M" -> "m"
      [] ch = "N" -> "n" [] ch = "O" -> "o" [] ch = "P" -> "p" [] ch = "W" -> "w"
      [] ch = "X" -> "x" [] OTHER -> ch

\* every upper/lower-case spelling of a key
RECURSIVE Spellings(_)
Spellings(key) ==
    IF key = << >> THEN { << >> }
    ELSE { << c >> \o t : c \in {key[1], LowerChar(key[1])}, t \in Spellings(Tail(key)) }

IdChars == {"W", "w", "A", "a", "B", "C", "c", "X", "Z", "z", "1", "_"}

\* identifiers handed to the translator: the spellings of the keys and every
\* identifier of up to MaxIdLen characters, the empty one included
TrInputs ==
    UNION { Spellings(e.key) : e \in STANDARD_MAP }
    \cup UNION { [1..n -> IdChars] : n \in 0..MaxIdLen }

InitTr ==
    /\ Init
    /\ env = "benign"
    /\ ~peer

\* one call of to_fsw_command and one of to_description with the same identifier
Translate ==
    /\ \E std \in TrInputs :
         tr' = [done |-> TRUE, std |-> std, cmd |-> to_fsw_command(std),
                desc |-> to_description(std)]
    /\ UNCHANGED << gen, env, peer, op, pc, loc, ex, now, deadline, qdur, instr,
                    sent, call, result, err, opsRun, fs, conn >>

NextTr == Translate

SpecTr == InitTr /\ [][NextTr]_vars

-----------------------------------------------------------------------------
(* The session life cycle: the connect and close handlers of RS_FSX_GUI and  *)
(* of CombinedSMWFSWGUI, and the constructors they call.  Neither the repo's *)
(* analyzer session nor the handlers call close() on the analyzer's link;    *)
(* what happens to a link whose object is dropped is left to the runtime.    *)

\* the most handlers one application is explored with
MaxConnOps == 4

\* outcomes of a constructor: it returns; RsInstrument(...) raises and no link was
\* opened; query_str("*IDN?") raises on the link just opened
OpenOutcomes == {"ok", "refused", "idn"}

\* one more link on instrument d; the object that holds it is dropped at once when
\* the constructor raised after opening it
Opened(c, d, o) ==
    IF o = "refused" THEN c
    ELSE [c EXCEPT !.open[d] = @ + 1, !.lost[d] = @ + (IF o = "idn" THEN 1 ELSE 0)]

\* the object holding a link on d is dropped without close()
Dropped(c, d) == [c EXCEPT !.lost[d] = @ + 1]

\* a handler has run
Handled(c, name) == [c EXCEPT !.last = name, !.ops = @ + 1]

CanHandle(g) == conn.gui = g /\ conn.ops < MaxConnOps /\ conn.last # "on_closing"

\* RS_FSX_GUI.connect.  With a peer address the analyzer's constructor opens its own
\* link first and then constructs RS_SMX; when that raises, the exception leaves
\* __init__ and self.fsw stays None.
connect ==
    /\ CanHandle("RS_FSX_GUI")
    /\ IF conn.fsw
       THEN conn' = Handled(conn, "connect")
       ELSE \E withPeer \in BOOLEAN, a \in OpenOutcomes, g \in OpenOutcomes :
              LET c1 == Opened(conn, "fsw", a)
                  c2 == IF a = "ok" /\ withPeer THEN Opened(c1, "smw", g) ELSE c1
                  ok == a = "ok" /\ (withPeer => g = "ok")
                  c3 == IF ok
                        THEN [c2 EXCEPT !.fsw = TRUE,
                                        !.kind = IF withPeer THEN "own" ELSE "none"]
                        ELSE IF a = "ok"
                        THEN [Dropped(c2, "fsw") EXCEPT !.fails = @ + 1]
                        ELSE [c2 EXCEPT !.fails = @ + 1]
              IN  conn' = Handled(c3, "connect")
    /\ UNCHANGED << gen, env, peer, op, pc, loc, ex, now, deadline, qdur, instr,
                    sent, call, result, err, opsRun, tr, fs >>

\* RS_FSX_GUI.close: self.fsw = None.  The session object, and with it an RS_SMX it
\* created, is dropped.
close ==
    /\ CanHandle("RS_FSX_GUI")
    /\ IF conn.fsw
       THEN LET c1 == Dropped(conn, "fsw")
                c2 == IF conn.kind = "own" THEN Dropped(c1, "smw") ELSE c1
            IN  conn' = Handled([c2 EXCEPT !.fsw = FALSE, !.kind = "none",
                                           !.was = conn.kind], "close")
       ELSE conn' = Handled(conn, "close")
    /\ UNCHANGED << gen, env, peer, op, pc, loc, ex, now, deadline, qdur, instr,
                    sent, call, result, err, opsRun, tr, fs >>

\* CombinedSMWFSWGUI.connect_smw: self.smw = RS_SMX(...); shared with the analyzer
\* session when that has no peer yet
connect_smw ==
    /\ CanHandle("CombinedSMWFSWGUI")
    /\ IF conn.smw
       THEN conn' = Handled(conn, "connect_smw")
       ELSE \E g \in OpenOutcomes :
              LET c1 == Opened(conn, "smw", g)
                  c2 == IF g = "ok"
                        THEN [c1 EXCEPT !.smw = TRUE,
                                        !.kind = IF conn.fsw /\ conn.kind = "none"
                                                 THEN "injected" ELSE @]
                        ELSE [c1 EXCEPT !.fails = @ + 1]
              IN  conn' = Handled(c2, "connect_smw")
    /\ UNCHANGED << gen, env, peer, op, pc, loc, ex, now, deadline, qdur, instr,
                    sent, call, result, err, opsRun, tr, fs >>

\* a connect_fsw that leaves the new analyzer session without the peer
connect_fswUnlinked ==
    /\ CanHandle("CombinedSMWFSWGUI")
    /\ IF conn.fsw
       THEN conn' = Handled(conn, "connect_fsw")
       ELSE \E a \in OpenOutcomes :
              LET c1 == Opened(conn, "fsw", a)
                  c2 == IF a = "ok"
                        THEN [c1 EXCEPT !.fsw = TRUE, !.kind = "none"]
                        ELSE [c1 EXCEPT !.fails = @ + 1]
              IN  conn' = Handled(c2, "connect_fsw")
    /\ UNCHANGED << gen, env, peer, op, pc, loc, ex, now, deadline, qdur, instr,
                    sent, call, result, err, opsRun, tr, fs >>

\* CombinedSMWFSWGUI.connect_fsw: RS_FSX_WLAN_AX_BE(..., smw_resource_id=None), then
\* self.fsw.smw = self.smw when the GUI holds a generator session
connect_fsw ==
    /\ CanHandle("CombinedSMWFSWGUI")
    /\ IF conn.fsw
       THEN conn' = Handled(conn, "connect_fsw")
       ELSE \E a \in OpenOutcomes :
              LET c1 == Opened(conn, "fsw", a)
                  c2 == IF a = "ok"
                        THEN [c1 EXCEPT !.fsw = TRUE,
                                        !.kind = IF conn.smw THEN "injected" ELSE "none"]
                        ELSE [c1 EXCEPT !.fails = @ + 1]
              IN  conn' = Handled(c2, "connect_fsw")
    /\ UNCHANGED << gen, env, peer, op, pc, loc, ex, now, deadline, qdur, instr,
                    sent, call, result, err, opsRun, tr, fs >>

\* CombinedSMWFSWGUI.on_closing: self.smw.close() when the GUI holds a generator
\* session, self.fsw = None when it holds an analyzer session, root.destroy()
on_closing ==
    /\ CanHandle("CombinedSMWFSWGUI")
    /\ LET c1 == IF conn.smw THEN [conn EXCEPT !.open["smw"] = @ - 1, !.smw = FALSE]
                 ELSE conn
           c2 == IF conn.fsw
                 THEN [Dropped(c1, "fsw") EXCEPT !.fsw = FALSE, !.kind = "none",
                                                 !.was = conn.kind]
                 ELSE c1
       IN  conn' = Handled(c2, "on_closing")
    /\ UNCHANGED << gen, env, peer, op, pc, loc, ex, now, deadline, qdur, instr,
                    sent, call, result, err, opsRun, tr, fs >>

\* the runtime finalises an object that nothing references and its link closes.
\* Nothing in the repository forces this step or its time.
Finalize(d) ==
    /\ conn.lost[d] > 0
    /\ conn' = [conn EXCEPT !.lost[d] = @ - 1, !.open[d] = @ - 1]
    /\ UNCHANGED << gen, env, peer, op, pc, loc, ex, now, deadline, qdur, instr,
                    sent, call, result, err, opsRun, tr, fs >>

InitConn ==
    /\ env = "benign"
    /\ peer = FALSE
    /\ Quiet
    /\ conn \in { Disconnected(g) : g \in Guis }
    /\ gen = NoGen

NextConn ==
    \/ connect
    \/ close
    \/ connect_smw
    \/ connect_fsw
    \/ on_closing
    \/ \E d \in Devs : Finalize(d)

SpecConn == InitConn /\ [][NextConn]_vars

-----------------------------------------------------------------------------
(* Snapshots of a generator whose settings are followed: gen holds what the  *)
(* instrument is set to, the queries of extract_settings_from_generator are  *)
(* answered from it, and it is set anew between two calls.                  *)

\* the generator is set anew (by create_waveform on its own session, or at its
\* front panel) after an extraction has returned
GenChange ==
    /\ pc = "done"
    /\ opsRun >= 1
    /\ \E f \in {10 * Unit, 200 * Unit}, i \in {10 * Unit, 50 * Unit},
          q \in {6000, 5180}, s \in {WBE, WAX} :
         /\ << f, i, q, s >> # << gen.fdur, gen.itime, gen.freq, gen.std >>
         /\ gen' = [known |-> TRUE, changed |-> TRUE, fdur |-> f, itime |-> i,
                    freq |-> q, std |-> s]
    /\ UNCHANGED << conn, fs, tr, env, peer, op, pc, loc, ex, now, deadline, qdur,
                    instr, sent, call, result, err, opsRun >>

InitSnap ==
    /\ env \in {"benign", "adverse"}
    /\ peer = TRUE
    /\ Quiet
    /\ conn = Connected(TRUE)
    /\ gen \in [known : {TRUE}, changed : {FALSE}, fdur : {10 * Unit, 200 * Unit},
                itime : {10 * Unit, 50 * Unit}, freq : {6000, 5180},
                std : {WBE, WAX}]

NextSnap ==
    \/ extract_settings_from_generator
    \/ ExtractQuery
    \/ GenChange

SpecSnap == InitSnap /\ [][NextSnap]_vars

-----------------------------------------------------------------------------
(* The legacy basic executor: opc_check of legacy versions/RS_FSx_Basic.py,  *)
(* whose write_command and query_command_int log an RsInstrException and     *)
(* return (query_command_int returns 0), and whose poll loop has no deadline *)

\* polls of one call that are counted; further polls leave the count as it is
MaxBasicPolls == 3

\* opc_check(cmd) is called, as SMx_preset and set_frequency call it
opc_check ==
    /\ CanStart
    /\ \E c \in {"*RST", "*CLS", "FREQ:CW"} :
         /\ ex' = [phase |-> "bese", dev |-> "smw", cmd |-> Plain(c), ret |-> "done"]
         /\ call' = [NoCount EXCEPT !.dev = "smw", !.cmd = Plain(c)]
    /\ Start("opc_check", NoLoc)
    /\ pc' = "call"
    /\ result' = "none"
    /\ err' = NoExc
    /\ UNCHANGED << gen, conn, tr, env, peer, instr >>

\* the three write_command calls of lines 53-55; a failed write is logged and the
\* method goes on
BasicWrite ==
    /\ ex.phase \in {"bese", "bsre", "bwrite"}
    /\ LET w == CASE ex.phase = "bese" -> Bare(Plain("*ESE 1"))
                  [] ex.phase = "bsre" -> Bare(Plain("*SRE 32"))
                  [] OTHER -> WithOpc(ex.cmd)
       IN  /\ sent' = Append(sent, Entry("smw", "write", w))
           /\ \E o \in LinkOutcomes :
                /\ instr' = IF o = "ok" /\ ex.phase = "bwrite"
                            THEN [instr EXCEPT !["smw"] = Accept(@, ex.cmd)]
                            ELSE instr
                /\ call' = [call EXCEPT
                              !.writes = @ + (IF ex.phase = "bwrite" THEN 1 ELSE 0),
                              !.last = IF ex.phase = "bwrite" THEN "write" ELSE "prep"]
    /\ ex' = [ex EXCEPT !.phase = CASE ex.phase = "bese" -> "bsre"
                                    [] ex.phase = "bsre" -> "bwrite"
                                    [] OTHER -> "bpoll"]
    /\ UNCHANGED << gen, conn, fs, tr, env, peer, op, pc, loc, now, deadline, qdur,
                    result, err, opsRun >>

\* line 56, the loop condition: query_command_int("*ESR?") & 1, where a failed
\* query gives 0
BasicPoll ==
    /\ ex.phase = "bpoll"
    /\ \E o \in LinkOutcomes :
         LET reply == IF o = "ok" /\ instr["smw"].esr0 THEN OpcMask ELSE 0
             seen == [call EXCEPT
                        !.polls = IF @ < MaxBasicPolls THEN @ + 1 ELSE @,
                        !.last = "poll"]
         IN  /\ instr' = IF o = "ok" THEN [instr EXCEPT !["smw"].esr0 = FALSE]
                         ELSE instr
             /\ IF OpcSet(reply)
                THEN /\ ex' = NoCall
                     /\ pc' = "done"
                     /\ result' = "ok"
                     /\ call' = [seen EXCEPT !.ret = "ok", !.set = 1]
                     /\ sent' = Confirm(sent, "smw")
                ELSE /\ ex' = [ex EXCEPT !.phase = "bsleep"]
                     /\ call' = seen
                     /\ UNCHANGED << pc, result, sent >>
    /\ UNCHANGED << gen, conn, fs, tr, env, peer, op, loc, now, deadline, qdur, err,
                    opsRun >>

\* line 57, the loop body: time.sleep(0.2)
BasicSleep ==
    /\ ex.phase = "bsleep"
    /\ ex' = [ex EXCEPT !.phase = "bpoll"]
    /\ call' = [call EXCEPT !.last = "sleep"]
    /\ UNCHANGED << gen, conn, fs, tr, env, peer, op, pc, loc, now, deadline, qdur,
                    instr, sent, result, err, opsRun >>

NextBasic ==
    \/ opc_check
    \/ BasicWrite
    \/ BasicPoll
    \/ BasicSleep
    \/ InstrComplete("smw")

\* the interpreter goes on with a call that has begun; nothing obliges the
\* instrument to finish or the user to press a button
LiveBasic ==
    /\ Init
    /\ [][NextBasic]_vars
    /\ WF_vars(BasicWrite \/ BasicPoll \/ BasicSleep)

-----------------------------------------------------------------------------
(* The Generate Waveform button of CombinedSMWFSWGUI and of RS_SMX_GUI: the  *)
(* handler calls create_waveform and, on 0, set_frequency, set_power_level   *)
(* (each one opc_check) and enable_WLAN (one write_command).                 *)

\* a handler that goes on whatever create_waveform returned
GwProceedsAlways(res) == TRUE

\* `if result == 0:`
GwProceeds(res) == res = "ret0"

\* the button is pressed: self.smw.create_waveform(...) is called
generate_waveform ==
    /\ CanStart
    /\ \E a \in CwArgs :
         /\ loc' = [NoLoc EXCEPT !.std = a.std, !.bw = a.bw, !.mcs = a.mcs,
                                 !.burst = a.burst, !.dn = a.dn, !.dd = a.dd]
         /\ IF DutyValid(a.dn, a.dd)
            THEN /\ pc' = "state0"
                 /\ result' = "none"
                 /\ err' = NoExc
            ELSE /\ pc' = "done"
                 /\ result' = "retm1"
                 /\ err' = Exc("ValueError", Bare(Plain("duty_cycle")))
    /\ op' = "create_waveform"
    /\ fs' = [NoFs EXCEPT !.stage = "gw", !.gui = "CombinedSMWFSWGUI"]
    /\ sent' = << >>
    /\ opsRun' = opsRun + 1
    /\ ex' = NoCall
    /\ call' = NoCount
    /\ now' = 0
    /\ deadline' = 0
    /\ qdur' = 0
    /\ UNCHANGED << gen, conn, tr, env, peer, instr >>

\* the statements of the handler after create_waveform has returned: the branch on
\* its result, the three calls, and `except Exception` around all of it
GwStep ==
    /\ fs.stage \in {"gw", "freq", "power"}
    /\ \/ /\ fs.stage = "gw" /\ pc = "done"
          /\ IF GwProceeds(result)
             THEN /\ fs' = [fs EXCEPT !.stage = "freq"]
                  /\ op' = "generate_waveform"
                  /\ Enter("smw", Cmd("FREQ:CW", 0, 6000, 1), "gwret")
                  /\ pc' = "call"
                  /\ result' = "none"
                  /\ UNCHANGED << loc, sent, err >>
             ELSE /\ fs' = [fs EXCEPT !.stage = "idle", !.status = "failed", !.at = "gw"]
                  /\ UNCHANGED << op, pc, loc, sent, ex, call, result, err >>
       \/ /\ fs.stage = "freq" /\ pc = "gwret"
          /\ fs' = [fs EXCEPT !.stage = "power"]
          /\ Enter("smw", Cmd("SOUR:POW:LEV:IMM:AMPL", 0, 0, 1), "gwret")
          /\ pc' = "call"
          /\ UNCHANGED << op, loc, sent, result, err >>
       \/ /\ fs.stage = "power" /\ pc = "gwret"
          /\ SmxWrite(Cmd("WLNN:STATe", 0, 1, 1), "done", loc)
          /\ fs' = [fs EXCEPT !.stage = "idle", !.at = "enable",
                              !.status = IF result' = "raised" THEN "failed"
                                         ELSE "completed"]
          /\ call' = NoCount
          /\ UNCHANGED op
       \/ /\ fs.stage \in {"freq", "power"} /\ pc = "done"
          /\ fs' = [fs EXCEPT !.stage = "idle", !.status = "failed", !.at = fs.stage]
          /\ UNCHANGED << op, pc, loc, sent, ex, call, result, err >>
    /\ UNCHANGED << gen, conn, tr, env, peer, now, deadline, qdur, instr, opsRun >>

NextGw ==
    \/ generate_waveform
    \/ GwStep
    \/ CwState0
    \/ CwPreset
    \/ CwBandwidth
    \/ CwStandard
    \/ CwTxMode
    \/ CwMcs
    \/ CwQueryGi
    \/ CwQueryBps
    \/ CwQueryMax
    \/ CwCount
    \/ CwUnitSource
    \/ CwUnitLength
    \/ CwIdle
    \/ CwQueryFdur
    \/ ExPrep
    \/ ExWrite
    \/ ExPoll
    \/ ExSleep
    \/ ExTimeout
    \/ InstrComplete("smw")

SpecGw == Init /\ [][NextGw]_vars

-----------------------------------------------------------------------------
(* Properties *)

Indices == 1..Len(sent)

IsWrite(i, dev) == sent[i].dev = dev /\ sent[i].kind = "write"

\* the transport calls the current executor call has made
CallIndices == (call.base + 1)..Len(sent)

\* the writes of the current call that carry its directive
DirectiveWrites ==
    { i \in CallIndices : IsWrite(i, call.dev) /\ sent[i].cmd = call.cmd }

\* the lengths written so far for the MPDUs, in order
IsLength(e) == e.kind = "write" /\ e.cmd.c = "MPDU:DATA:LENGth"
Lengths == [k \in 1..Len(SelectSeq(sent, IsLength)) |-> SelectSeq(sent, IsLength)[k].cmd.v]

RECURSIVE SumSeq(_)
SumSeq(q) == IF q = << >> THEN 0 ELSE q[1] + SumSeq(Tail(q))

\* the MPDU loop of create_waveform has run to its end
UnitsDone == op = "create_waveform" /\ loc.count > 0 /\ loc.mpdu = loc.count

\* C1: on the analyzer session a directive is written only after a status poll that
\* followed the previous directive returned bit 0 set, and after a write_command
\* that failed the operation writes nothing more.
C1_NextOnlyAfterConfirmed ==
    /\ \A i \in Indices, j \in Indices :
         (i < j /\ IsWrite(i, "fsw") /\ IsWrite(j, "fsw")) => sent[i].conf
    /\ (call.dev = "fsw" /\ call.ret \in {"timeout", "transport"}) =>
         /\ pc = "done" /\ result = "raised" /\ ex.phase = "idle"
         /\ Len(sent) = call.base + 1
         /\ ~sent[Len(sent)].conf

C1_Witness ==
    /\ op = "setup_WLAN_app" /\ result = "raised" /\ err.kind = "TimeoutError"
    /\ Len(sent) >= 2 /\ sent[1].conf /\ IsWrite(Len(sent), "fsw")

\* C2 as stated: a call whose poll loop times out raises a timeout error that names
\* the original command, and no status poll begins after the 10 s deadline.
C2_NoPollPastDeadline ==
    /\ call.ret = "timeout" => err = Exc("TimeoutError", Bare(call.cmd))
    /\ call.late = 0

\* C2 amended: a call that never sees bit 0 set does not return successfully; its
\* timeout error names the original command without the suffix; at most one status
\* poll begins after the deadline, no later than one poll interval after it, and
\* the loop makes at most TimeoutMs / SleepMs + 2 polls.
C2_AtMostOneLatePoll ==
    /\ call.ret = "ok" => call.set = 1
    /\ call.ret = "timeout" =>
         /\ err = Exc("TimeoutError", Bare(call.cmd))
         /\ call.set = 0
         /\ pc = "done" /\ result \in {"raised", "retm1"}
    /\ call.late <= 1
    /\ ex.phase = "poll" => now <= deadline + SleepMs
    /\ call.polls <= (TimeoutMs \div SleepMs) + 2

C2_Witness == call.ret = "timeout" /\ call.late = 1 /\ call.dev = "fsw"

\* C3: a call returns successfully exactly on the first reply with bit 0 set, after
\* one poll more than it slept and with no poll after that reply; it times out only
\* when the intervals slept no longer fit the window, so a bit set after k intervals
\* that fit is seen; a poll made while the bit is set returns successfully.
C3_ReturnsOnFirstSetReply ==
    /\ [](/\ call.set <= 1
          /\ call.set = 1 => (call.ret = "ok" /\ call.last = "poll" /\ ex.phase = "idle")
          /\ call.ret = "ok" =>
               /\ call.set = 1 /\ call.polls = call.sleeps + 1
               /\ result = "none" /\ err.kind = "none" /\ pc \notin {"done", "call"}
          /\ call.ret = "timeout" =>
               call.sleeps * SleepMs + call.polls * qdur > TimeoutMs)
    /\ [][(/\ ex.phase = "poll" /\ instr[ex.dev].esr0
           /\ call'.polls = call.polls + 1 /\ call'.ret # "transport")
          => call'.ret = "ok"]_vars

C3_Witness ==
    call.ret = "ok" /\ call.sleeps = TimeoutMs \div SleepMs /\ call.dev = "fsw"

\* C4: a transport failure in the write or in a poll of write_command ends the call
\* and the operation at once with that error; no write, poll or sleep follows it.
C4_FailurePropagatesAtOnce ==
    /\ [](call.ret = "transport" =>
            /\ ex.phase = "idle" /\ pc = "done"
            /\ err.kind = "RsInstrException"
            /\ call.dev = "fsw" => result = "raised")
    /\ [][call.ret = "transport" =>
            \/ call' = call /\ sent' = sent /\ now' = now /\ result' = result
            \/ opsRun' = opsRun + 1]_vars

C4_Witness ==
    call.ret = "transport" /\ call.dev = "fsw" /\ call.polls >= 2 /\ call.last = "poll"

\* C5 as stated: every executor call that has ended has written its directive
\* exactly once, with the suffix.
C5_ExactlyOnce ==
    call.ret # "none" =>
        /\ call.writes = 1
        /\ Cardinality(DirectiveWrites) = 1
        /\ \A i \in DirectiveWrites : sent[i].opc

\* C5 amended: a call writes its directive at most once, always with the suffix;
\* exactly once when it ends in success or timeout; a call that wrote nothing is a
\* generator call that failed in one of its two preparatory writes.
C5_AtMostOnce ==
    /\ call.writes <= 1
    /\ Cardinality(DirectiveWrites) = call.writes
    /\ \A i \in DirectiveWrites : sent[i].opc
    /\ call.ret \in {"ok", "timeout"} => call.writes = 1
    /\ (call.ret = "transport" /\ call.writes = 0) =>
          (call.dev = "smw" /\ call.last = "prep")

C5_Witness == call.ret = "timeout" /\ call.dev = "smw" /\ call.writes = 1

\* C6: in create_waveform every state-changing directive written to the generator
\* is confirmed complete before the next write.
C6_EveryDirectiveConfirmed ==
    op = "create_waveform" =>
        \A i \in Indices, j \in Indices :
            (/\ i < j /\ IsWrite(i, "smw") /\ IsWrite(j, "smw")
             /\ sent[i].cmd.c \notin {"*ESE 1", "*SRE 32"}) => sent[i].conf

\* C7: the MPDU count sent is ceil(required_bytes / max_unit_size) and the length
\* sent for the last MPDU lies in 1..max_unit_size.
C7_CountIsCeiling ==
    op = "create_waveform" =>
        \A i \in Indices :
            /\ (sent[i].cmd.c = "MPDU1:COUNt" /\ loc.bytes > 0 /\ loc.maxlen > 0) =>
                  sent[i].cmd.v = (loc.bytes + loc.maxlen - 1) \div loc.maxlen
            /\ (IsLength(sent[i]) /\ sent[i].cmd.i = loc.count) =>
                  (1 <= sent[i].cmd.v /\ sent[i].cmd.v <= loc.maxlen)

\* C8: the MPDU lengths sent add up to required_bytes, and every MPDU but the last
\* has the maximum length.
C8_LengthsSumToRequired ==
    /\ UnitsDone =>
         /\ loc.bytes > 0 /\ loc.maxlen > 0
         /\ Len(Lengths) = loc.count
         /\ SumSeq(Lengths) = loc.bytes
    /\ op = "create_waveform" =>
         \A k \in 1..Len(Lengths) : k < loc.count => Lengths[k] = loc.maxlen

C8_Witness == UnitsDone /\ result = "ret0" /\ loc.count = 3 /\ loc.rem > 0

\* C9: burst 4 ms, duty cycle 0.5, guard interval 0.8 us, 2048 bits (256 bytes) per
\* symbol and a maximum MPDU of 60000 bytes give 291 symbols, 74396 bytes, two
\* MPDUs of 60000 and 14396 bytes.
C9_Example ==
    (/\ op = "create_waveform" /\ loc.burst = 40000 /\ loc.dn = 1 /\ loc.dd = 2
     /\ loc.gi = "GD08" /\ loc.bits = 2048) =>
        /\ loc.sym = 291
        /\ loc.bytes = 74396
        /\ loc.maxlen = 60000 =>
             /\ loc.count = 2
             /\ \A i \in Indices : sent[i].cmd.c = "MPDU1:COUNt" => sent[i].cmd.v = 2
             /\ \A k \in 1..Len(Lengths) : Lengths[k] = << 60000, 14396 >>[k]
             /\ UnitsDone => Lengths = << 60000, 14396 >>

C9_Witness ==
    /\ result = "ret0" /\ loc.burst = 40000 /\ loc.gi = "GD08" /\ loc.bits = 2048
    /\ loc.maxlen = 60000 /\ Lengths = << 60000, 14396 >> /\ env = "adverse"

\* C10: required_bytes is symbols x bytes per symbol less 100, and create_waveform
\* fails on it exactly when that value is not positive; directives that carry the
\* plan are sent only for a positive value.
C10_MarginThenPositive ==
    (op = "create_waveform" /\ loc.bits > 0) =>
        LET adjusted == loc.sym * (loc.bits \div 8) - 100
        IN  /\ err.kind = "AssertionError" <=> adjusted <= 0
            /\ err.kind = "AssertionError" => (result = "retm1" /\ pc = "done")
            /\ adjusted > 0 => loc.bytes = adjusted
            /\ (\E i \in Indices : sent[i].cmd.c = "MPDU1:COUNt" \/ IsLength(sent[i]))
                  => loc.bytes > 0

C10_Witness == err.kind = "AssertionError" /\ loc.raw = 100 /\ Len(sent) > 0

\* the directives of create_waveform that carry the MPDU plan or follow it
PlanDirectives ==
    {"MPDU1:COUNt", "MPDU:DATA:SOURce PN23", "MPDU:DATA:LENGth", "FBLock1:ITIMe"}

\* C11: when create_waveform fails on the byte-count check (the value before the
\* margin is at most 100), the call ends with -1 and has sent no MPDU-count,
\* data-source, data-length or idle-time directive.
C11_NoPlanDirectiveAfterCapacityError ==
    (/\ op = "create_waveform"
     /\ \/ err.kind = "AssertionError"
        \/ loc.bits > 0 /\ loc.sym * (loc.bits \div 8) <= 100) =>
        /\ err.kind = "AssertionError" /\ result = "retm1" /\ pc = "done"
        /\ ex.phase = "idle"
        /\ \A i \in Indices : sent[i].cmd.c \notin PlanDirectives

C11_Witness ==
    /\ err.kind = "AssertionError" /\ loc.sym > 0
    /\ \E i \in Indices : sent[i].cmd.c = "USER1:MCS MCS" /\ sent[i].conf

\* C12: the idle time written by create_waveform is burst_length x (1/duty_cycle - 1)
\* for a duty cycle in (0, 1]; it is never negative and is 0 exactly when the duty
\* cycle is 1.
C12_IdleTime ==
    op = "create_waveform" =>
        \A i \in Indices :
            sent[i].cmd.c = "FBLock1:ITIMe" =>
                LET v == sent[i].cmd.v
                    q == sent[i].cmd.q
                IN  /\ q > 0
                    /\ 0 < loc.dn /\ loc.dn <= loc.dd /\ loc.burst >= 0
                    /\ v * loc.dn = loc.burst * (loc.dd - loc.dn) * q
                    /\ v >= 0
                    /\ v = 0 <=> loc.dn = loc.dd

C12_Witness ==
    /\ result = "ret0" /\ loc.dn = loc.dd
    /\ \E i \in Indices : sent[i].cmd.c = "FBLock1:ITIMe" /\ sent[i].cmd.v = 0 /\ sent[i].conf

\* a create_waveform call whose duty_cycle is outside (0, 1]
DutyRejected == op = "create_waveform" /\ ~(0 < loc.dn /\ loc.dn <= loc.dd)

\* C13 as stated: create_waveform called with duty_cycle <= 0 or > 1 ends by raising
\* the parameter error to its caller.
C13_RaisesToCaller ==
    (DutyRejected /\ pc = "done") => (result = "raised" /\ err.kind = "ValueError")

\* C13 amended: create_waveform called with duty_cycle <= 0 or > 1 raises ValueError
\* inside the call, catches it itself and returns -1; it sends nothing to the
\* generator and no exception reaches the caller.
C13_RejectedWithMinusOne ==
    DutyRejected =>
        /\ pc = "done" /\ result = "retm1"
        /\ err = Exc("ValueError", Bare(Plain("duty_cycle")))
        /\ sent = << >> /\ ex.phase = "idle"

C13_Witness == DutyRejected /\ result = "retm1" /\ loc.dn > loc.dd

\* C14: a guard-interval reply other than GD08 / GD16 / GD32 makes create_waveform
\* fail with a parameter error, and no symbol count is derived from it.
C14_UnknownGuardIntervalFails ==
    (op = "create_waveform" /\ loc.gi \notin {"none", "GD08", "GD16", "GD32"}) =>
        /\ pc = "done" /\ result = "retm1" /\ err.kind = "ValueError"
        /\ loc.sym = 0 /\ loc.bits = 0

\* a create_waveform call whose burst is no longer than the header
ShortBurst == op = "create_waveform" /\ loc.burst <= HeaderDuration

\* C15 as stated: create_waveform called with burst_length <= header_duration fails
\* with a parameter error.
C15_ShortBurstIsParameterError ==
    (ShortBurst /\ pc = "done") => (result = "retm1" /\ err.kind = "ValueError")

\* C15 amended: create_waveform has no check of burst_length.  Called with
\* burst_length <= header_duration it never succeeds and never sends a directive of
\* the MPDU plan; once the bits per symbol are read the symbol count is <= 0 and the
\* call fails on the byte-count assertion, returning -1.  A ValueError in such a call
\* comes only from the duty-cycle check or from a reply that is no number.
C15_ShortBurstFailsOnByteCount ==
    ShortBurst =>
        /\ result # "ret0"
        /\ pc = "done" => result = "retm1"
        /\ \A i \in Indices : sent[i].cmd.c \notin PlanDirectives
        /\ loc.bits > 0 =>
             (loc.sym <= 0 /\ err.kind = "AssertionError" /\ result = "retm1")
        /\ err.kind = "ValueError" => err.names.cmd.c \in {"duty_cycle", "BPSymbol?"}

C15_Witness ==
    /\ ShortBurst /\ loc.burst = HeaderDuration /\ err.kind = "AssertionError"
    /\ \E i \in Indices : sent[i].cmd.c = "WLNN:PRESet" /\ sent[i].conf

Min(a, b) == IF a <= b THEN a ELSE b

\* the capture-time directives written in the current setup_WLAN_app call
SweepWrites == { i \in Indices : IsWrite(i, "fsw") /\ sent[i].cmd.c = ":SENS:SWE:TIME" }

\* C16: with a peer generator the capture time setup_WLAN_app writes is
\* min(4 x (frame_duration + idle_time), 1 s), the two replies taken as milliseconds;
\* it never exceeds 1 s (10 ms and 10 ms give 80 ms; 200 ms and 100 ms give 1 s).
C16_CaptureTime ==
    op = "setup_WLAN_app" =>
        \A i \in SweepWrites :
            LET v == sent[i].cmd.v
            IN  /\ peer
                /\ sent[i].cmd.q = 1
                /\ 1000 * v = Min(4 * (loc.fdur + loc.itime), 1000 * Unit)
                /\ v <= Unit
                /\ (loc.fdur = 10 * Unit /\ loc.itime = 10 * Unit) => v = 80000
                /\ (loc.fdur = 200 * Unit /\ loc.itime = 100 * Unit) => v = Unit

C16_Witness ==
    /\ op = "setup_WLAN_app" /\ result = "ok" /\ loc.fdur = 10 * Unit
    /\ \E i \in SweepWrites : sent[i].cmd.v = 80000 /\ sent[i].conf

\* C17: setup_WLAN_app flags the capture-time warning exactly when the uncapped value
\* is greater than 1 s; the warning is no error: the directive is still written, with
\* the capped value, and the call returns normally unless that write itself fails.
C17_WarningNotError ==
    (op = "setup_WLAN_app" /\ pc \notin {"fdur", "itime", "swe"}
     /\ (loc.cap > 0 \/ loc.warn)) =>
        /\ loc.warn <=> 4 * (loc.fdur + loc.itime) > 1000 * Unit
        /\ loc.warn => loc.cap = Unit
        /\ result = "raised" =>
             (call.cmd.c = ":SENS:SWE:TIME" /\ call.ret \in {"timeout", "transport"})
        /\ pc = "done" => \E i \in SweepWrites : sent[i].cmd.v = loc.cap
        /\ (pc = "done" /\ env = "benign") => result = "ok"

C17_Witness ==
    /\ op = "setup_WLAN_app" /\ result = "ok" /\ loc.warn
    /\ \E i \in SweepWrites : sent[i].cmd.v = Unit /\ sent[i].conf

\* the identifier is a spelling, in any mix of cases, of the key
IsSpelling(std, key) ==
    /\ Len(std) = Len(key)
    /\ \A k \in 1..Len(key) : std[k] = key[k] \/ std[k] = LowerChar(key[k])

\* C18: for an identifier that is no key of the map in any spelling, to_fsw_command
\* returns the default directive ":CONF:STAN 11" and to_description the default
\* description.
C18_UnknownGivesDefault ==
    (tr.done /\ \A e \in STANDARD_MAP : ~IsSpelling(tr.std, e.key)) =>
        /\ tr.cmd = [c |-> ":CONF:STAN", i |-> 0, v |-> 11, q |-> 1]
        /\ tr.desc = "IEEE 802.11be (default)"

C18_Witness ==
    tr.done /\ tr.std = << "w", "Z" >> /\ tr.desc = "IEEE 802.11be (default)"

\* C19: for every entry of the map and every spelling of its key, to_fsw_command
\* returns that entry's directive and to_description that entry's description; a key
\* has one entry, and different keys have different directives.
C19_KnownGivesOwnEntry ==
    /\ \A e \in STANDARD_MAP :
         (tr.done /\ IsSpelling(tr.std, e.key)) =>
            /\ tr.cmd = [c |-> ":CONF:STAN", i |-> 0, v |-> e.dir, q |-> 1]
            /\ tr.desc = e.desc
    /\ \A e1 \in STANDARD_MAP, e2 \in STANDARD_MAP :
         /\ e1.key = e2.key => e1 = e2
         /\ e1.dir = e2.dir => e1 = e2
         /\ e1.dir = e1.num

C19_Witness ==
    /\ tr.done /\ tr.std = << "n", "_", "M", "i", "m", "O" >>
    /\ tr.desc = "IEEE 802.11n (MIMO)" /\ tr.cmd.v = 7

\* the stage of full_setup that a method of the analyzer session belongs to
Rank(by) ==
    CASE by = "FSW_preset" -> 1
      [] by = "setup_WLAN_app" -> 2
      [] by = "sync_with_smw" -> 3
      [] by = "FSW_autolevel" -> 4
      [] OTHER -> 0

\* `sent` is the history of a full_setup run, in progress or ended
InRun == fs.stage # "idle" \/ fs.status # "none"

FswWrites == { i \in Indices : IsWrite(i, "fsw") }

\* the analyzer directives of a completed run, each with the rank of its stage
RunDirectives ==
    LET w == SelectSeq(sent, LAMBDA e : e.dev = "fsw" /\ e.kind = "write")
    IN  [k \in 1..Len(w) |-> << w[k].cmd.c, Rank(w[k].by) >>]

ExpectedDirectives(p) ==
    << << "*CLS; *RST", 1 >>, << ":INST:CRE:NEW WLAN, \"WLAN\"", 2 >>,
       << ":CONF:STAN", 2 >>, << ":CONF:POW:AUTO ONCE; *WAI", 2 >>,
       << ":INP:GAIN:STAT OFF", 2 >>, << ":TRIG:SEQ:SOUR EXT", 2 >> >>
    \o (IF p THEN << << ":SENS:SWE:TIME", 2 >>, << ":FREQ:CENT", 3 >>,
                     << ":CONF:STAN", 3 >> >>
             ELSE << >>)
    \o << << ":CONF:POW:AUTO ONCE; *WAI", 4 >> >>

\* C20: in a full_setup run the analyzer directives are issued stage by stage
\* (preset, WLAN-application configuration, synchronization with the peer,
\* auto-level), a directive is issued only when every analyzer directive before it
\* has been confirmed complete, the synchronization directives occur only with a
\* peer, and a run that completes has issued exactly the directives of its stages,
\* all of them confirmed.
C20_StagesInOrder ==
    InRun =>
      /\ \A i, j \in FswWrites :
           i < j => Rank(sent[i].by) <= Rank(sent[j].by) /\ sent[i].conf
      /\ \A i \in FswWrites : Rank(sent[i].by) = 3 => peer
      /\ fs.status = "completed" =>
           /\ RunDirectives = ExpectedDirectives(peer)
           /\ \A i \in FswWrites : sent[i].conf

\* a run with a peer completes on an instrument that needed polling, all four
\* stages having sent their directives
C20_Witness ==
    /\ fs.status = "completed"
    /\ peer
    /\ env = "adverse"
    /\ Cardinality(FswWrites) = Len(ExpectedDirectives(TRUE))
    /\ \E i, j \in FswWrites : Rank(sent[i].by) = 3 /\ Rank(sent[j].by) = 4

\* the analyzer directives written by FSW_autolevel in the run
LevelWrites == { i \in FswWrites : Rank(sent[i].by) = 4 }

\* the run has ended
RunEnded == fs.stage = "idle" /\ fs.status # "none"

PeerDirectives == { i \in FswWrites : sent[i].cmd.c \in {":SENS:SWE:TIME", ":FREQ:CENT"} }

\* C22: a full_setup run on a session without a peer issues nothing to a generator,
\* writes no capture-time and no center-frequency directive, never enters the
\* extraction or synchronization steps, fails only when a call on the analyzer itself
\* fails, and when it completes it has written the preset, the five configuration
\* directives and auto-level, and nothing else.
C22_NoPeerRun ==
    (InRun /\ ~peer) =>
      /\ \A i \in Indices : sent[i].dev = "fsw"
      /\ PeerDirectives = {}
      /\ fs.stage \notin {"extract", "sync", "post"}
      /\ \A i \in Indices : sent[i].by \in {"FSW_preset", "setup_WLAN_app", "FSW_autolevel"}
      /\ fs.status = "failed" => err.kind \in {"TimeoutError", "RsInstrException"}
      /\ env = "benign" => fs.status # "failed"
      /\ fs.status = "completed" =>
           /\ RunDirectives = ExpectedDirectives(FALSE)
           /\ LevelWrites # {}

\* a run without a peer has completed, auto-level included
C22_Witness ==
    /\ ~peer
    /\ fs.status = "completed"
    /\ Cardinality(LevelWrites) = 1
    /\ Len(sent) = Len(ExpectedDirectives(FALSE))

\* sync_with_smw has returned on a session with a peer; loc holds the settings it read
SyncDone == op = "sync_with_smw" /\ peer /\ pc = "done" /\ result = "ok"

\* the analyzer directives written by sync_with_smw
SyncWrites == { i \in FswWrites : sent[i].by = "sync_with_smw" }

\* C23: a synchronization that succeeds has read the peer's settings afresh and has
\* written to the analyzer the center frequency and the standard it read and the
\* capture time derived from the frame duration and idle time it read.
C23_SyncReappliesAll ==
    SyncDone =>
      /\ loc.got
      /\ \E i \in SyncWrites : sent[i].cmd = Cmd(":FREQ:CENT", 0, loc.freq, 1)
      /\ \E i \in SyncWrites : sent[i].cmd = to_fsw_command(loc.std)
      /\ \E i \in SyncWrites :
           sent[i].cmd = Cmd(":SENS:SWE:TIME", 0,
                             CaptureCapped(CaptureFactor * (loc.fdur + loc.itime)), 1)

\* a step of the run has raised; the run is ending or has ended as failed
RunFailing == InRun /\ result = "raised"

\* C24: once a call has failed in a full_setup run, nothing more is sent to any
\* instrument and the history of confirmed directives stays as it is until the next
\* operation is started; the session then accepts FSW_autolevel and full_setup again.
C24_FailureLeavesPartialConfiguration ==
    /\ [](RunFailing /\ fs.stage = "idle" /\ opsRun < MaxOps =>
            ENABLED FSW_autolevel /\ ENABLED full_setup)
    /\ [][RunFailing => (sent' = sent \/ opsRun' = opsRun + 1)]_vars

\* the synchronization failed on a time-out after the preset and the whole
\* WLAN-application configuration were confirmed; another operation may follow
C24_Witness ==
    /\ fs.status = "failed"
    /\ fs.at = "sync"
    /\ err.kind = "TimeoutError"
    /\ opsRun < MaxOps
    /\ Cardinality({ i \in FswWrites : sent[i].conf }) = 7
    /\ ~sent[Len(sent)].conf

\* a handler that closes the analyzer session has returned, and no connect had
\* failed before
AfterClose == conn.last \in {"close", "on_closing"} /\ conn.was # "unconnected" /\ conn.fails = 0

\* C25: when the analyzer session has been closed, its link is closed; the link of a
\* peer it created is closed too, and a peer that was injected is still open.
C25_CloseClosesOwnedPeerOnly ==
    AfterClose =>
      /\ conn.open["fsw"] = 0
      /\ conn.was = "own" => conn.open["smw"] = 0
      /\ conn.was = "injected" => conn.open["smw"] = 1

\* C26: no instrument ever has more than one open link.
C26_OneSessionPerInstrument == \A d \in Devs : conn.open[d] <= 1

\* the transport calls made by extract_settings_from_generator
ExtractCalls == { i \in Indices : sent[i].by = "extract_settings_from_generator" }

\* C27: on a session without a peer extract_settings_from_generator has returned the
\* empty mapping as soon as it is called, with no exception raised and no call made
\* on the transport of either instrument.
C27_NoPeerGivesEmpty ==
    (op = "extract_settings_from_generator" /\ ~peer) =>
      /\ pc = "done"
      /\ result = "empty"
      /\ err = NoExc
      /\ ex = NoCall
      /\ ExtractCalls = {}
      /\ sent = << >>

\* the extraction was called without a peer after an earlier operation
C27_Witness ==
    /\ op = "extract_settings_from_generator"
    /\ ~peer
    /\ result = "empty"
    /\ opsRun = MaxOps

\* float() has rejected a reply: in the extraction, which caught the ValueError, or
\* in setup_WLAN_app
ParseFailed ==
    \/ op \in {"extract_settings_from_generator", "sync_with_smw"} /\ loc.caught = "ValueError"
    \/ op = "setup_WLAN_app" /\ err.kind = "ValueError"

\* C28 as stated: an operation that has read a reply that is no number ends with an
\* error raised to its caller.
C28_ParseFailureRaises ==
    (ParseFailed /\ pc = "done") => result = "raised"

\* C28, amended: a reply that is no number makes setup_WLAN_app raise the ValueError
\* of float() to its caller, after its five directives and without a capture-time
\* directive; extract_settings_from_generator catches it, raises nothing and returns
\* the empty mapping; sync_with_smw then raises a ValueError of its own.
C28_ParseFailureByOperation ==
    /\ (op = "extract_settings_from_generator" /\ loc.caught = "ValueError") =>
         pc \in {"done", "fs"} /\ result = "empty" /\ err = NoExc /\ ~loc.got
    /\ (op = "sync_with_smw" /\ loc.caught = "ValueError") =>
         \/ pc = "synccheck" /\ result = "none"
         \/ pc = "done" /\ result = "raised" /\ err.kind = "ValueError" /\ SyncWrites = {}
    /\ (op = "setup_WLAN_app" /\ err.kind = "ValueError") =>
         /\ pc = "done" /\ result = "raised"
         /\ sent[Len(sent)].kind = "query"
         /\ sent[Len(sent)].cmd = err.names.cmd
         /\ \A i \in FswWrites : sent[i].by = "setup_WLAN_app" => sent[i].cmd.c # ":SENS:SWE:TIME"

\* the extraction that opens a full_setup run met a reply that is no number and
\* returned the empty mapping
C28_Witness ==
    /\ op = "extract_settings_from_generator"
    /\ loc.caught = "ValueError"
    /\ result = "empty"
    /\ fs.stage = "extract"

\* the last transport calls of the operation are the ten queries of one extraction,
\* in order, all on the generator
TenFresh(h) ==
    /\ Len(h) >= Len(ExtractNames)
    /\ \A k \in 1..Len(ExtractNames) :
         LET e == h[Len(h) - Len(ExtractNames) + k]
         IN  /\ e.dev = "smw" /\ e.kind = "query"
             /\ e.cmd.c = ExtractNames[k]
             /\ e.by = "extract_settings_from_generator"

\* C29: settings are never cached.  Every call of extract_settings_from_generator
\* that returns the dict has sent its ten queries to the generator in that call,
\* and the dict holds what the generator is set to when the call returns: its
\* frequency, its standard, and its frame duration and idle time converted from
\* milliseconds to seconds, also after the generator was set anew since the call
\* before.
C29_SnapshotIsFresh ==
    [][(pc = "xq" /\ pc' = "done" /\ result' = "settings") =>
         /\ TenFresh(sent')
         /\ loc'.got
         /\ loc'.freq = gen.freq
         /\ loc'.std = gen.std
         /\ loc'.fdur = MsToS(gen.fdur)
         /\ loc'.itime = MsToS(gen.itime)]_vars

\* a second extraction has returned the dict after the generator was set anew, and
\* the dict holds the new settings
C29_Witness ==
    /\ op = "extract_settings_from_generator"
    /\ pc = "done"
    /\ result = "settings"
    /\ opsRun = 2
    /\ gen.changed
    /\ TenFresh(sent)
    /\ << loc.freq, loc.std >> = << gen.freq, gen.std >>
    /\ << loc.fdur, loc.itime >> = << MsToS(gen.fdur), MsToS(gen.itime) >>

\* C30: create_waveform called with standard 'WAX' and otherwise valid parameters
\* (those of the documented example for 'WBE') applies the settings and returns 0,
\* as it does for 'WBE'.
C30_WaxConfigures ==
    (/\ op = "create_waveform"
     /\ pc = "done"
     /\ env = "benign"
     /\ loc.std = WAX
     /\ << loc.bw, loc.mcs, loc.burst, loc.dn, loc.dd >> =
          << CwBase.bw, CwBase.mcs, CwBase.burst, CwBase.dn, CwBase.dd >>)
    => result = "ret0"

\* C31: in the poll loop of write_command and of opc_check exactly one sleep of the
\* poll interval (200 ms) lies between two consecutive status polls: a sleep follows
\* a poll that saw bit 0 clear and lasts SleepMs, a poll follows the write or a
\* sleep, there is no sleep before the first poll and none after a poll that saw
\* bit 0 set.
C31_OneSleepBetweenPolls ==
    /\ [](/\ call.sleeps <= call.polls
          /\ ex.phase = "poll" => call.polls = call.sleeps
          /\ ex.phase = "decide" => (call.polls = call.sleeps + 1 /\ call.set = 0)
          /\ call.set >= 1 => call.sleeps = call.polls - 1)
    /\ [][call'.sleeps > call.sleeps =>
            /\ call.last = "poll" /\ call.set = 0
            /\ call'.sleeps = call.sleeps + 1 /\ call'.polls = call.polls
            /\ now' = now + SleepMs]_vars
    /\ [][call'.polls = call.polls + 1 => call.last \in {"write", "sleep"}]_vars

\* a generator call that returned on its third poll, after two sleeps
C31_Witness ==
    call.dev = "smw" /\ call.ret = "ok" /\ call.polls = 3 /\ call.sleeps = 2

\* the place of a directive among the dependent settings of create_waveform, 0 for
\* what is none of them
CwStep(c) ==
    CASE c = "WLNN:PRESet" -> 1
      [] c = "WLNN:BWidth" -> 2
      [] c = "FBLOck1:STANdard WBE" -> 3
      [] c = "FBLOck1:TMOde EHT" -> 4
      [] c = "USER1:MCS MCS" -> 5
      [] c = "MPDU1:COUNt" -> 6
      [] c \in {"MPDU:DATA:SOURce PN23", "MPDU:DATA:LENGth"} -> 7
      [] c = "FBLock1:ITIMe" -> 8
      [] OTHER -> 0

\* the writes of dependent settings made so far
CwSettingWrites == { i \in Indices : IsWrite(i, "smw") /\ CwStep(sent[i].cmd.c) > 0 }

\* C32: create_waveform applies the dependent settings in the order WLAN preset,
\* bandwidth, standard, transmit mode, MCS, MPDU count, per-MPDU directives, idle
\* time, and each of them is confirmed complete before the next is written.
C32_OrderedEachConfirmed ==
    op = "create_waveform" =>
        \A i \in CwSettingWrites, j \in CwSettingWrites :
            i < j => /\ CwStep(sent[i].cmd.c) <= CwStep(sent[j].cmd.c)
                     /\ sent[i].conf

\* C33: when write_command(c) or opc_check(c) returns successfully, c has completed
\* on the instrument: no command with a completion request is still executing on
\* that session, whatever calls came before.
C33_ReturnMeansOwnCompletion ==
    (call.ret = "ok" /\ call.last = "poll") => instr[call.dev].pend = 0

\* C34: the deadline is examined only after a poll that found bit 0 clear.  A poll
\* begun after the deadline that finds the bit set makes the call return
\* successfully.  The timeout is raised only after an unsuccessful poll whose reply
\* came strictly after the deadline, and it is the first such poll, every earlier
\* unsuccessful poll having been followed by a sleep begun no later than the
\* deadline; with status queries that take no time it is a poll begun strictly
\* after the deadline.  The loop ends no later than one poll interval plus the
\* duration of one status query after the deadline.
C34_DeadlineAfterClearPoll ==
    /\ [](/\ ex.phase = "decide" => (call.last = "poll" /\ call.set = 0)
          /\ ex.phase \in {"poll", "decide"} => now <= deadline + SleepMs + qdur
          /\ call.ret = "timeout" =>
               /\ now > deadline /\ now <= deadline + SleepMs + qdur
               /\ call.last = "poll" /\ call.set = 0
               /\ qdur = 0 => call.late = 1)
    /\ [][(/\ ex.phase = "poll" /\ now > deadline /\ instr[ex.dev].esr0
           /\ call'.polls = call.polls + 1 /\ call'.ret # "transport")
          => (call'.ret = "ok" /\ call'.late = 1 /\ result' = result)]_vars
    /\ [][call'.sleeps > call.sleeps => now <= deadline]_vars
    /\ [][(call'.ret = "timeout" /\ call.ret # "timeout") =>
            (ex.phase = "decide" /\ now > deadline)]_vars

\* a call has returned successfully on a poll that began after the deadline
C34_Witness == call.ret = "ok" /\ call.late = 1 /\ call.last = "poll"

\* C35: every call of the legacy basic opc_check ends: when the completion bit is
\* never set or the status query fails, the call leaves its poll loop with an error.
C35_BasicCallEnds ==
    (op = "opc_check" /\ pc = "call") ~> (op = "opc_check" /\ pc = "done")

\* C36: in the combined GUI, whenever the GUI holds both a generator session and an
\* analyzer session, the analyzer's peer is the GUI's generator session, injected
\* by whichever of connect_smw and connect_fsw ran second, and the two references
\* stand for one link to the generator: no second one is held.
C36_PeerIsTheGuiSession ==
    (conn.gui = "CombinedSMWFSWGUI" /\ conn.fsw /\ conn.smw) =>
        /\ conn.kind = "injected"
        /\ conn.open["smw"] - conn.lost["smw"] = 1
        /\ conn.open["fsw"] - conn.lost["fsw"] = 1

\* the generator was connected after the analyzer, and after a connect that failed
C36_Witness ==
    /\ conn.gui = "CombinedSMWFSWGUI"
    /\ conn.fsw /\ conn.smw /\ conn.kind = "injected"
    /\ conn.last = "connect_smw"
    /\ conn.fails >= 1

\* C37: create_waveform never lets an exception out to its caller.  It returns 0
\* exactly when no validation, query or directive of the call failed, after the
\* idle-time directive was confirmed and the frame duration was read; it returns -1
\* on every failure, and the failing step is the last thing it sent: a timed-out
\* directive or a failed write or query ends the history, and nothing is sent
\* between the return and the next operation.
C37_ReturnsZeroOrMinusOne ==
    /\ [](op = "create_waveform" =>
            /\ result \in {"none", "ret0", "retm1"}
            /\ pc = "done" => result \in {"ret0", "retm1"}
            /\ result = "ret0" <=> (pc = "done" /\ err = NoExc)
            /\ result = "ret0" =>
                 /\ sent[Len(sent)] = Query(Plain("FDURation?"))
                 /\ \E i \in Indices : sent[i].cmd.c = "FBLock1:ITIMe" /\ sent[i].conf
                 /\ call.ret \notin {"timeout", "transport"}
            /\ result = "retm1" =>
                 /\ pc = "done" /\ ex.phase = "idle" /\ err.kind # "none"
                 /\ err.kind \in {"TimeoutError", "RsInstrException"} =>
                      (sent # << >> /\ ~sent[Len(sent)].conf)
                 /\ err.kind = "TimeoutError" =>
                      (sent[Len(sent)].cmd = err.names.cmd /\ sent[Len(sent)].opc))
    /\ [][(op = "create_waveform" /\ pc = "done") =>
            (sent' = sent \/ opsRun' = opsRun + 1)]_vars

\* create_waveform has returned -1 on a handshake timeout after directives that
\* were confirmed
C37_Witness ==
    /\ op = "create_waveform" /\ pc = "done" /\ result = "retm1"
    /\ err.kind = "TimeoutError"
    /\ \E i \in Indices : sent[i].cmd.c = "WLNN:BWidth" /\ sent[i].conf

\* the per-MPDU directives sent so far, in order
UnitWrites ==
    LET IsUnit(e) == e.kind = "write" /\ CwStep(e.cmd.c) = 7
    IN  SelectSeq(sent, IsUnit)

\* C38: in every create_waveform run that returned 0, one MPDU-count directive was
\* sent and confirmed, with a count N >= 1; after it came exactly 2 N per-MPDU
\* directives, for the MPDUs 1 .. N in increasing order, each MPDU once: its
\* data-source directive, then its length directive.
C38_UnitsMatchCount ==
    (op = "create_waveform" /\ result = "ret0") =>
        \E c \in Indices :
            /\ sent[c].cmd.c = "MPDU1:COUNt" /\ sent[c].conf
            /\ \A i \in Indices : sent[i].cmd.c = "MPDU1:COUNt" => i = c
            /\ \A i \in Indices : CwStep(sent[i].cmd.c) = 7 => i > c
            /\ LET N == sent[c].cmd.v
               IN  /\ N >= 1
                   /\ Len(UnitWrites) = 2 * N
                   /\ Len(Lengths) = N
                   /\ \A k \in 1..N :
                        /\ UnitWrites[2 * k - 1].cmd.c = "MPDU:DATA:SOURce PN23"
                        /\ UnitWrites[2 * k - 1].cmd.i = k
                        /\ UnitWrites[2 * k].cmd.c = "MPDU:DATA:LENGth"
                        /\ UnitWrites[2 * k].cmd.i = k

\* a run with two MPDUs has returned 0
C38_Witness ==
    /\ op = "create_waveform" /\ result = "ret0"
    /\ Len(UnitWrites) = 4
    /\ \E i \in Indices : sent[i].cmd = Cmd("MPDU1:COUNt", 0, 2, 1)

\* C39: extract_settings_from_generator is read-only.  Whatever its outcome, each of
\* its steps makes one transport call, a query without completion request on the
\* generator session, named in the list of its ten queries; it writes nothing to
\* either instrument and leaves the instruments' pending commands and status bits,
\* the sessions and the peer reference as they were.  Called without a peer it
\* makes no transport call at all.
C39_ExtractionOnlyQueries ==
    /\ [](\A i \in ExtractCalls :
             /\ sent[i].dev = "smw" /\ sent[i].kind = "query"
             /\ ~sent[i].opc /\ ~sent[i].conf
             /\ \E k \in 1..Len(ExtractNames) : sent[i].cmd = Plain(ExtractNames[k]))
    /\ [][(pc = "xq" /\ << sent, loc, pc >> # << sent', loc', pc' >>) =>
            /\ Len(sent') = Len(sent) + 1
            /\ SubSeq(sent', 1, Len(sent)) = sent
            /\ sent'[Len(sent')].dev = "smw" /\ sent'[Len(sent')].kind = "query"
            /\ << instr, conn, peer, ex >> = << instr', conn', peer', ex' >>]_vars
    /\ [][(op' = "extract_settings_from_generator" /\ pc # "xq" /\ pc' \in {"xq", "done"}
           /\ << op, pc, result >> # << op', pc', result' >>) =>
            /\ sent' \in {sent, << >>}
            /\ << instr, conn, peer >> = << instr', conn', peer' >>
            /\ pc' = "done" <=> ~peer]_vars

\* the extraction lost the link at its last query, after nine queries that were
\* answered, and returned the empty mapping
C39_Witness ==
    /\ op = "extract_settings_from_generator" /\ pc = "done"
    /\ result = "empty" /\ loc.caught = "RsInstrException"
    /\ Cardinality(ExtractCalls) = Len(ExtractNames)

\* the directives the handler sends itself after create_waveform
GwWrites ==
    { i \in Indices : sent[i].by = "generate_waveform" /\ sent[i].kind = "write"
                      /\ sent[i].cmd.c \notin {"*ESE 1", "*SRE 32"} }

\* C40: in generate_waveform the handler's own directives (frequency, power, WLAN
\* enable) are sent only after create_waveform has returned 0 in this run of the
\* handler, which ends with the frame-duration query; the enable directive
\* 'WLNN:STATe 1' is sent only after the frequency and the power directive, each
\* confirmed; and when create_waveform returned -1 the handler sends none of the
\* three and ends with the failure status.
C40_EnableOnlyAfterSuccess ==
    /\ GwWrites # {} =>
         /\ fs.gui = "CombinedSMWFSWGUI" /\ op = "generate_waveform"
         /\ \E q \in Indices :
              /\ sent[q] = [Query(Plain("FDURation?")) EXCEPT !.by = "create_waveform"]
              /\ \A i \in Indices : sent[i].by = "create_waveform" <=> i <= q
              /\ \E i \in 1..q : sent[i].cmd.c = "FBLock1:ITIMe" /\ sent[i].conf
    /\ \A k \in GwWrites :
         sent[k].cmd = Cmd("WLNN:STATe", 0, 1, 1) =>
            \E i \in GwWrites, j \in GwWrites :
               /\ i < j /\ j < k
               /\ sent[i].cmd.c = "FREQ:CW" /\ sent[i].conf
               /\ sent[j].cmd.c = "SOUR:POW:LEV:IMM:AMPL" /\ sent[j].conf
               /\ k = Len(sent)
    /\ (op = "create_waveform" /\ result = "retm1") =>
         /\ GwWrites = {}
         /\ \A i \in Indices :
              /\ sent[i].cmd.c \notin {"FREQ:CW", "SOUR:POW:LEV:IMM:AMPL"}
              /\ sent[i].cmd # Cmd("WLNN:STATe", 0, 1, 1)
         /\ fs.stage = "idle" => fs.status = "failed"

\* the handler has sent the enable directive at the end of a run
C40_Witness ==
    /\ op = "generate_waveform" /\ fs.stage = "idle" /\ fs.status = "completed"
    /\ sent[Len(sent)].cmd = Cmd("WLNN:STATe", 0, 1, 1)
    /\ Cardinality(GwWrites) = 3

====
